---- MODULE Spec2Model ----
(***************************************************************************)
(* A model of go-spew's Dump walker (spew/dump.go) together with the        *)
(* helpers of common.go it calls.  A value is a record carrying its         *)
(* reflect.Kind, its type and its contents; a pointer holds the number of   *)
(* the memory cell it points to (0 = nil) and the heap maps cells to the    *)
(* values stored in them.  The recursion of dumpState.dump is an explicit   *)
(* stack of frames; the output is the sequence of tokens written to w.      *)
(***************************************************************************)
EXTENDS Integers, Sequences, FiniteSets, TLC

(***************************************************************************)
(* Bounds of the model.                                                     *)
(***************************************************************************)
\* number of heap cells holding a struct of type node
NumNodes == 3
\* length at which the recorded pointer chain stops growing and past which
\* the count of indirections is kept by its parity alone; only a dereference
\* loop that never ends reaches it
MaxChain == 4
\* largest value of Config.MaxDepth that is tried
MaxDepthCfg == 2

(***************************************************************************)
(* Types, values and the heap.                                              *)
(***************************************************************************)
Range(s) == {s[i] : i \in DOMAIN s}

RECURSIVE Repeat(_, _)
Repeat(tok, n) == IF n <= 0 THEN <<>> ELSE <<tok>> \o Repeat(tok, n - 1)

\* reflect.Type: the printed name is `stars` asterisks followed by `base`
T(base) == [stars |-> 0, base |-> base]
PtrTo(t) == [stars |-> t.stars + 1, base |-> t.base]

\* bytes.Repeat(asteriskBytes, n) followed by the type name
TypeTokens(t) == Repeat("*", t.stars) \o <<t.base>>

\* the error/Stringer method of a value's type: which interface it satisfies,
\* the receiver it is declared on, whether it panics, and what it returns;
\* for a type with both methods text is what Error returns and strText what
\* String returns
NoMeth == [name |-> "none", recv |-> "value", panics |-> FALSE, text |-> "", strText |-> ""]
StringerOK == [name |-> "String", recv |-> "value", panics |-> FALSE, text |-> "flagTwo", strText |-> ""]
StringerPanics == [name |-> "String", recv |-> "value", panics |-> TRUE, text |-> "boom", strText |-> ""]
\* pstringer: a String method declared on the pointer receiver only
StringerPtr == [name |-> "String", recv |-> "pointer", panics |-> FALSE, text |-> "stringer a", strText |-> ""]
\* a type that has an Error method and a String method
ErrorAndStringer ==
  [name |-> "both", recv |-> "value", panics |-> FALSE, text |-> "error: 3",
   strText |-> "string: 3"]
\* the String method of the struct type pair
StringerPair == [name |-> "String", recv |-> "value", panics |-> FALSE, text |-> "pair", strText |-> ""]

IntV(t, n, m) == [kind |-> "Int", type |-> t, val |-> n, meth |-> m]
StrV(cs) == [kind |-> "String", type |-> T("string"), chars |-> cs, meth |-> NoMeth]
PtrV(t, c) == [kind |-> "Ptr", type |-> t, target |-> c, meth |-> NoMeth]
NilIface == [kind |-> "Interface", type |-> T("interface {}"), isNil |-> TRUE, meth |-> NoMeth]
IfaceV(b) == [kind |-> "Interface", type |-> T("interface {}"), isNil |-> FALSE,
              boxed |-> b, meth |-> NoMeth]
StructV(t, fs, m) == [kind |-> "Struct", type |-> t, fields |-> fs, meth |-> m]
SliceV(t, es) == [kind |-> "Slice", type |-> t, elems |-> es, meth |-> NoMeth]
MapV(t, ps) == [kind |-> "Map", type |-> t, pairs |-> ps, meth |-> NoMeth]
\* reflect.ValueOf(nil): the zero reflect.Value
NilArg == [kind |-> "Invalid", type |-> T("<nil>"), meth |-> NoMeth]

\* memory cells: 1..NumNodes hold a node, PCell a *node, ICell an
\* interface {}, SCell a value of the named pointer type P (type P *P)
NodeCells == 1 .. NumNodes
PCell == NumNodes + 1
ICell == NumNodes + 2
SCell == NumNodes + 3
Cells == 1 .. (NumNodes + 3)

\* the address of a cell, as reflect.Value.Pointer returns it
AddrOf(c) == 49152 + 16 * c

NodeT == T("main.node")
NodeV(next) == StructV(NodeT, <<[name |-> "next", exported |-> FALSE, val |-> PtrV(PtrTo(NodeT), next)]>>, NoMeth)

\* struct{ p *node; in struct{ q *node } } passed by value
OuterV(a, b) ==
  StructV(T("main.outer"),
          <<[name |-> "p", exported |-> FALSE, val |-> PtrV(PtrTo(NodeT), a)],
            [name |-> "in", exported |-> FALSE, val |-> StructV(T("main.inner"),
                                   <<[name |-> "q", exported |-> FALSE, val |-> PtrV(PtrTo(NodeT), b)]>>, NoMeth)]>>,
          NoMeth)

\* struct{ x panicer; y Flag } whose own String method is m
PairV(m) ==
  StructV(T("main.pair"),
          <<[name |-> "x", exported |-> FALSE, val |-> IntV(T("main.panicer"), 5, StringerPanics)],
            [name |-> "y", exported |-> FALSE, val |-> IntV(T("main.Flag"), 1, StringerOK)]>>,
          m)

\* map[string]int{"b": 2, "a": 1}
MapBA ==
  MapV(T("map[string]int"),
       <<[key |-> StrV(<<98>>), val |-> IntV(T("int"), 2, NoMeth)],
         [key |-> StrV(<<97>>), val |-> IntV(T("int"), 1, NoMeth)]>>)

\* []interface {}{ Flag(1), int8(127) }
SliceFI ==
  SliceV(T("[]interface {}"),
         <<IfaceV(IntV(T("main.Flag"), 1, StringerOK)), IfaceV(IntV(T("int8"), 127, NoMeth))>>)

\* pstringer("a")
PStringerV == [kind |-> "String", type |-> T("main.pstringer"), chars |-> <<97>>,
               meth |-> StringerPtr]

\* []pstringer{"a"}
SlicePS == SliceV(T("[]main.pstringer"), <<PStringerV>>)

\* []interface {}{ nil, int8(127) }
SliceNI ==
  SliceV(T("[]interface {}"), <<NilIface, IfaceV(IntV(T("int8"), 127, NoMeth))>>)

CellValues(c) ==
  IF c \in NodeCells THEN {NodeV(t) : t \in {0} \cup NodeCells}
  ELSE IF c = PCell THEN {PtrV(PtrTo(NodeT), t) : t \in {0} \cup NodeCells}
  ELSE IF c = ICell THEN {NilIface, IfaceV(PtrV(PtrTo(T("interface {}")), ICell)),
                          IfaceV(PtrV(PtrTo(NodeT), 1))}
  ELSE {PtrV(T("main.P"), 0), PtrV(T("main.P"), SCell)}

DefaultCell(c) ==
  IF c \in NodeCells THEN NodeV(0)
  ELSE IF c = PCell THEN PtrV(PtrTo(NodeT), 0)
  ELSE IF c = ICell THEN NilIface
  ELSE PtrV(T("main.P"), 0)

\* a heap: the value stored in each cell
MkHeap(nx, pc, ic, sc) ==
  [c \in Cells |-> IF c \in NodeCells THEN nx[c]
                   ELSE IF c = PCell THEN pc ELSE IF c = ICell THEN ic ELSE sc]

\* a value of an integer type with both methods
ErrStrV == IntV(T("main.errStr"), 3, ErrorAndStringer)

Roots ==
  {OuterV(a, b) : a, b \in {0} \cup NodeCells}
    \cup {PtrV(PtrTo(NodeT), c) : c \in {0} \cup NodeCells}
    \cup {PtrV(PtrTo(PtrTo(NodeT)), PCell),
          PtrV(PtrTo(T("interface {}")), ICell),
          PtrV(PtrTo(T("main.P")), SCell),
          PairV(NoMeth), PairV(StringerPanics), PairV(StringerPair), MapBA, SliceFI, SliceNI, PStringerV, SlicePS, NilArg,
          ErrStrV}

\* the arguments of one Fdump call: a value passed twice, or a nil interface
\* followed by a value
ArgSeqs == {<<a, a>> : a \in Roots} \cup {<<NilArg, a>> : a \in Roots}

\* the cells a value refers to without following a pointer
RECURSIVE CellsOf(_)
CellsOf(v) ==
  CASE v.kind = "Ptr" -> {v.target} \ {0}
    [] v.kind = "Interface" -> IF v.isNil THEN {} ELSE CellsOf(v.boxed)
    [] v.kind = "Struct" -> UNION {CellsOf(v.fields[i].val) : i \in DOMAIN v.fields}
    [] v.kind = "Slice" -> UNION {CellsOf(v.elems[i]) : i \in DOMAIN v.elems}
    [] v.kind = "Map" -> UNION {CellsOf(v.pairs[i].key) \cup CellsOf(v.pairs[i].val) :
                                  i \in DOMAIN v.pairs}
    [] OTHER -> {}

RECURSIVE ReachFrom(_, _)
ReachFrom(h, S) ==
  LET S2 == S \cup UNION {CellsOf(h[c]) : c \in S}
  IN IF S2 = S THEN S ELSE ReachFrom(h, S2)

Reachable(h, as) == ReachFrom(h, UNION {CellsOf(as[i]) : i \in DOMAIN as})

\* whether a value, or one stored inside it, has an error/Stringer method
RECURSIVE HasMethod(_)
HasMethod(v) ==
  \/ v.meth.name # "none"
  \/ CASE v.kind = "Interface" -> IF v.isNil THEN FALSE ELSE HasMethod(v.boxed)
       [] v.kind = "Struct" -> \E i \in DOMAIN v.fields : HasMethod(v.fields[i].val)
       [] v.kind = "Slice" -> \E i \in DOMAIN v.elems : HasMethod(v.elems[i])
       [] v.kind = "Map" -> \E i \in DOMAIN v.pairs :
                              HasMethod(v.pairs[i].key) \/ HasMethod(v.pairs[i].val)
       [] OTHER -> FALSE

(***************************************************************************)
(* common.go: printing helpers and the method guard.                        *)
(***************************************************************************)
\* hexDigits[d]
HexDigit(d) ==
  <<"0", "1", "2", "3", "4", "5", "6", "7", "8", "9", "a", "b", "c", "d", "e", "f">>[d + 1]

\* a uint64 as four 16-bit limbs, the most significant first
U64(n) == <<0, 0, n \div 65536, n % 65536>>

\* num >= base, num % base and num / base for base = uint64(16)
U64Ge16(w) == w[1] # 0 \/ w[2] # 0 \/ w[3] # 0 \/ w[4] >= 16
U64Mod16(w) == w[4] % 16
U64Div16(w) ==
  [k \in 1 .. 4 |-> (IF k = 1 THEN 0 ELSE (w[k - 1] % 16) * 4096) + w[k] \div 16]

\* the loop of printHexPtr: fills buf from the right while num >= base
RECURSIVE HexLoop(_, _, _)
HexLoop(num, i, buf) ==
  IF U64Ge16(num)
    THEN HexLoop(U64Div16(num), i - 1, [buf EXCEPT ![i] = HexDigit(U64Mod16(num))])
    ELSE [num |-> num, i |-> i, buf |-> buf]

\* a variant of printHexPtr without the test for the null pointer
printHexPtrNoNil(p) ==
  LET r == HexLoop(p, 17, [k \in 0 .. 17 |-> ""])
      i0 == r.i - 2
      b == [r.buf EXCEPT ![r.i] = HexDigit(r.num[4]), ![r.i - 1] = "x", ![i0] = "0"]
  IN [k \in 1 .. (18 - i0) |-> b[i0 + k - 1]]

\* printHexPtr: the bytes written for address p, one token per byte; buf is
\* indexed from 0 as in the code
printHexPtr(p) ==
  IF p = U64(0) THEN <<"<nil>">>
  ELSE LET r == HexLoop(p, 17, [k \in 0 .. 17 |-> ""])
           i0 == r.i - 2
           b == [r.buf EXCEPT ![r.i] = HexDigit(r.num[4]), ![r.i - 1] = "x", ![i0] = "0"]
       IN [k \in 1 .. (18 - i0) |-> b[i0 + k - 1]]

\* the characters a string value may hold, by code point
Chr(c) == IF c = 97 THEN "a" ELSE IF c = 98 THEN "b" ELSE "?"

\* strconv.Quote of a string of plain letters
Quote(cs) == <<"\"">> \o [k \in DOMAIN cs |-> Chr(cs[k])] \o <<"\"">>

\* a variant of catchPanic that writes the message but does not call recover
catchPanicNoRecover(err) == [recovered |-> FALSE, toks |-> <<"(PANIC=", err, ")">>]

\* catchPanic: recover() stops the panic and the message is written
catchPanic(err) == [recovered |-> TRUE, toks |-> <<"(PANIC=", err, ")">>]

\* iface.Error() or iface.String(): what the method returns or panics with
MethodReturn(m, which) ==
  IF m.name = "both" /\ which = "String" THEN m.strText ELSE m.text

\* a variant of handleMethods that never reads cs.ContinueOnMethod: the text of
\* the method is always the whole rendering
handleMethodsNoContinue(cs, v, canAddr, canIface) ==
  LET addr1 == canAddr \/ ~canIface
      onPtr == IF ~cs.DisablePointerMethods THEN TRUE ELSE addr1
      found == v.meth.name # "none" /\ (onPtr \/ v.meth.recv = "value")
      which == IF v.meth.name \in {"Error", "both"} THEN "Error" ELSE "String"
      cp == catchPanic(v.meth.text)
  IN IF ~found
       THEN [toks |-> <<>>, handled |-> FALSE, invoked |-> "none", escaped |-> FALSE]
     ELSE IF v.meth.panics
       THEN [toks |-> (IF cp.recovered THEN cp.toks ELSE <<>>), handled |-> FALSE,
             invoked |-> which, escaped |-> ~cp.recovered]
     ELSE [toks |-> <<v.meth.text>>, handled |-> TRUE, invoked |-> which,
           escaped |-> FALSE]

\* a variant of handleMethods that reports handled = true after a panic
handleMethodsPanicHandled(cs, v, canAddr, canIface) ==
  LET addr1 == canAddr \/ ~canIface
      onPtr == IF ~cs.DisablePointerMethods THEN TRUE ELSE addr1
      found == v.meth.name # "none" /\ (onPtr \/ v.meth.recv = "value")
      which == IF v.meth.name \in {"Error", "both"} THEN "Error" ELSE "String"
      open == IF cs.ContinueOnMethod THEN <<"(">> ELSE <<>>
      cp == catchPanic(v.meth.text)
  IN IF ~found
       THEN [toks |-> <<>>, handled |-> FALSE, invoked |-> "none", escaped |-> FALSE]
     ELSE IF v.meth.panics
       THEN [toks |-> open \o (IF cp.recovered THEN cp.toks ELSE <<>>), handled |-> TRUE,
             invoked |-> which, escaped |-> ~cp.recovered]
     ELSE IF cs.ContinueOnMethod
       THEN [toks |-> <<"(", v.meth.text, ")", " ">>, handled |-> FALSE,
             invoked |-> which, escaped |-> FALSE]
     ELSE [toks |-> <<v.meth.text>>, handled |-> TRUE, invoked |-> which,
           escaped |-> FALSE]

\* a variant of handleMethods whose type switch tries fmt.Stringer first
handleMethodsStringerFirst(cs, v, canAddr, canIface) ==
  LET addr1 == canAddr \/ ~canIface
      \* whether viface is a pointer to the value
      onPtr == IF ~cs.DisablePointerMethods THEN TRUE ELSE addr1
      found == v.meth.name # "none" /\ (onPtr \/ v.meth.recv = "value")
      which == IF v.meth.name \in {"String", "both"} THEN "String" ELSE "Error"
      ret == MethodReturn(v.meth, which)
      open == IF cs.ContinueOnMethod THEN <<"(">> ELSE <<>>
      cp == catchPanic(ret)
  IN IF ~found
       THEN [toks |-> <<>>, handled |-> FALSE, invoked |-> "none", escaped |-> FALSE]
     ELSE IF v.meth.panics
       THEN [toks |-> open \o (IF cp.recovered THEN cp.toks ELSE <<>>), handled |-> FALSE,
             invoked |-> which, escaped |-> ~cp.recovered]
     ELSE IF cs.ContinueOnMethod
       THEN [toks |-> <<"(", ret, ")", " ">>, handled |-> FALSE,
             invoked |-> which, escaped |-> FALSE]
     ELSE [toks |-> <<ret>>, handled |-> TRUE, invoked |-> which,
           escaped |-> FALSE]

\* handleMethods(cs, w, v): the tokens written, the result `handled`, the
\* method invoked and whether a panic leaves the function
handleMethods(cs, v, canAddr, canIface) ==
  LET \* unsafeReflectValue returns an addressable value
      addr1 == canAddr \/ ~canIface
      \* whether viface is a pointer to the value
      onPtr == IF ~cs.DisablePointerMethods THEN TRUE ELSE addr1
      found == v.meth.name # "none" /\ (onPtr \/ v.meth.recv = "value")
      \* the type switch: case error comes before case fmt.Stringer
      which == IF v.meth.name \in {"Error", "both"} THEN "Error" ELSE "String"
      ret == MethodReturn(v.meth, which)
      open == IF cs.ContinueOnMethod THEN <<"(">> ELSE <<>>
      cp == catchPanic(ret)
  IN IF ~found
       THEN [toks |-> <<>>, handled |-> FALSE, invoked |-> "none", escaped |-> FALSE]
     ELSE IF v.meth.panics
       THEN [toks |-> open \o (IF cp.recovered THEN cp.toks ELSE <<>>), handled |-> FALSE,
             invoked |-> which, escaped |-> ~cp.recovered]
     ELSE IF cs.ContinueOnMethod
       THEN [toks |-> <<"(", ret, ")", " ">>, handled |-> FALSE,
             invoked |-> which, escaped |-> FALSE]
     ELSE [toks |-> <<ret>>, handled |-> TRUE, invoked |-> which,
           escaped |-> FALSE]

\* lexicographic order of two strings given by their bytes
RECURSIVE StrLess(_, _)
StrLess(a, b) ==
  IF b = <<>> THEN FALSE
  ELSE IF a = <<>> THEN TRUE
  ELSE IF a[1] # b[1] THEN a[1] < b[1]
  ELSE StrLess(Tail(a), Tail(b))

\* the bytes of the names of the types whose values are compared as text
TypeChars(t) ==
  CASE t.base = "interface {}" -> <<105, 110, 116, 101, 114, 102, 97, 99, 101, 32, 123, 125>>
    [] t.base = "main.pt" -> <<109, 97, 105, 110, 46, 112, 116>>

\* reflect.Value.String(): the string itself for Kind String, else
\* "<" + the type's name + " Value>"
ValueString(v) ==
  IF v.kind = "String" THEN v.chars
  ELSE <<60>> \o TypeChars(v.type) \o <<32, 86, 97, 108, 117, 101, 62>>

\* a variant of Less whose boolean case has its operands exchanged
LessBoolSwapped(x, y) ==
  CASE x.kind = "Bool" -> x.val /\ ~y.val
    [] x.kind \in {"Int", "Uint", "Float", "Uintptr"} -> x.val < y.val
    [] x.kind = "String" -> StrLess(x.chars, y.chars)
    [] OTHER -> StrLess(ValueString(x), ValueString(y))

\* valuesSorter.Less; for a kind outside the switch the texts of
\* Value.String() are compared
Less(x, y) ==
  CASE x.kind = "Bool" -> ~x.val /\ y.val
    [] x.kind \in {"Int", "Uint", "Float", "Uintptr"} -> x.val < y.val
    [] x.kind = "String" -> StrLess(x.chars, y.chars)
    [] OTHER -> StrLess(ValueString(x), ValueString(y))

\* unpackValue: the value inside a non-nil interface, else the value itself
unpackValue(v) == IF v.kind = "Interface" /\ ~v.isNil THEN v.boxed ELSE v

(***************************************************************************)
(* The state: the inputs (heap, args, Config), the position of Fdump in its *)
(* argument list, the writer, the fields of dumpState and the call stack.   *)
(***************************************************************************)
VARIABLES heap, args, Config, argi, pc, out, marks, depth, pointers,
          ignoreNextType, ignoreNextPad, stack, crashed

\* the SpewState instances: the pointer each holds in its field cs (0 is nil),
\* the ConfigStates allocated so far, the pointers each instance's Config
\* method has returned, and the instance whose Fdump runs (0: the package's)
VARIABLES scs, configs, rets, via

spewv == <<scs, configs, rets, via>>

\* two goroutines inside handleMethods and the memory they can share: the
\* capacity of the package's slice openParenBytes, the bytes of its backing
\* array past the first, each goroutine's position and locals, what each has
\* written to its own writer, and the accesses each made to the backing array
VARIABLES parenCap, paren, gor, sink, touched

concv == <<parenCap, paren, gor, sink, touched>>

\* a call of sortValues: the slice as passed, the slice being sorted, the
\* position of the call and the two loop indices of the sort
VARIABLES input, values, spc, si, sj

sortv == <<input, values, spc, si, sj>>

\* a call of the Format method of a Formatter: the verb, the flags and the
\* wrapped value it is called with, the position of the call, what was written
\* to the fmt.State, and whether spew or the fmt package rendered the value
VARIABLES fmtArg, fmtPc, fmtOut, fmtBy

fmtv == <<fmtArg, fmtPc, fmtOut, fmtBy>>

\* a call of printHexPtr: the address, the position of the call and the
\* bytes written
VARIABLES hexP, hexPc, hexOut

hexv == <<hexP, hexPc, hexOut>>

\* the threads inside SpewState.Config of one SpewState: each thread's
\* position, the address of its local cs, the pointer its last call returned
\* and the number of calls it has made
VARIABLES thr

racev == <<thr>>

\* the state that a traversal does not touch
foreign == <<spewv, concv, sortv, fmtv, hexv, racev>>

\* the state of one Fdump call
walk == <<heap, args, Config, argi, pc, out, marks, depth, pointers,
          ignoreNextType, ignoreNextPad, stack, crashed>>

vars == <<heap, args, Config, argi, pc, out, marks, depth, pointers,
          ignoreNextType, ignoreNextPad, stack, crashed, foreign>>

inputs == <<heap, args, Config>>

\* largest number of SpewState instances
NumSpewStates == 2
SpewStates == 1 .. NumSpewStates

\* no SpewState has been used
SpewIdle ==
  /\ scs = [s \in SpewStates |-> 0]
  /\ configs = <<>>
  /\ rets = [s \in SpewStates |-> {}]
  /\ via = 0

\* no goroutine is inside handleMethods
ConcIdle ==
  /\ parenCap = 1
  /\ paren = <<>>
  /\ gor = <<>>
  /\ sink = <<>>
  /\ touched = <<>>

\* sortValues is not running
SortIdle ==
  /\ input = <<>>
  /\ values = <<>>
  /\ spc = "idle"
  /\ si = 0
  /\ sj = 0

\* no Formatter is being printed
FmtIdle ==
  /\ fmtArg = <<>>
  /\ fmtPc = "idle"
  /\ fmtOut = <<>>
  /\ fmtBy = "none"

\* printHexPtr is not running
HexIdle ==
  /\ hexP = U64(0)
  /\ hexPc = "idle"
  /\ hexOut = <<>>

\* no thread is inside Config
RaceIdle == thr = <<>>

\* make(map[uintptr]int)
NoPointers == [a \in {} |-> 0]
\* m[k] = d
Put(m, k, d) == [a \in DOMAIN m \cup {k} |-> IF a = k THEN d ELSE m[a]]

\* the zero ConfigState with Indent " " (var Config)
defaultConfig ==
  [MaxDepth |-> 0, Indent |-> " ", DisableMethods |-> FALSE,
   DisablePointerMethods |-> FALSE, ContinueOnMethod |-> FALSE]

ConfigSet ==
  [MaxDepth : 0 .. MaxDepthCfg, Indent : {" "}, DisableMethods : BOOLEAN,
   DisablePointerMethods : BOOLEAN, ContinueOnMethod : BOOLEAN]

\* the method options are read only when some value has a method
MethodOptions(c) == <<c.DisableMethods, c.DisablePointerMethods, c.ContinueOnMethod>>

Init ==
  /\ \E nx \in [NodeCells -> CellValues(1)], pv \in CellValues(PCell),
        iv \in CellValues(ICell), sv \in CellValues(SCell) :
       heap = MkHeap(nx, pv, iv, sv)
  /\ args \in ArgSeqs
  /\ \A c \in Cells \ Reachable(heap, args) : heap[c] = DefaultCell(c)
  /\ Config \in ConfigSet
  /\ (\E i \in DOMAIN args : HasMethod(args[i]))
       \/ MethodOptions(Config) = MethodOptions(defaultConfig)
  /\ argi = 1
  /\ pc = "idle"
  /\ out = <<>>
  /\ marks = <<>>
  /\ depth = 0
  /\ pointers = NoPointers
  /\ ignoreNextType = FALSE
  /\ ignoreNextPad = FALSE
  /\ stack = <<>>
  /\ crashed = FALSE
  /\ SpewIdle
  /\ ConcIdle
  /\ SortIdle
  /\ FmtIdle
  /\ HexIdle
  /\ RaceIdle

Top == stack[Len(stack)]
Pop == SubSeq(stack, 1, Len(stack) - 1)
Done == pc = "idle" /\ argi > Len(args)

\* a call d.dump(v) about to run; canAddr and canIface are v.CanAddr() and
\* v.CanInterface()
DumpFrame(v, canAddr, canIface) ==
  [op |-> "dump", v |-> v, canAddr |-> canAddr, canIface |-> canIface]

\* a variant of pad that does not read ignoreNextPad
PadToksAlways(ignorePad, d) == Repeat(Config.Indent, d)

\* d.pad(): Config.Indent repeated depth times unless ignoreNextPad is set
PadToks(ignorePad, d) == IF ignorePad THEN <<>> ELSE Repeat(Config.Indent, d)

(***************************************************************************)
(* Fdump (dump.go:285-299)                                                  *)
(***************************************************************************)
\* arg == nil: the nil-interface line is written and the loop continues
FdumpNil ==
  /\ pc = "idle" /\ ~crashed /\ argi <= Len(args)
  /\ args[argi] = NilArg
  /\ out' = out \o <<"(interface {})", "<nil>", "\n">>
  /\ marks' = Append(marks, Len(out'))
  /\ argi' = argi + 1
  /\ UNCHANGED <<inputs, foreign, pc, depth, pointers, ignoreNextType, ignoreNextPad, stack, crashed>>

\* a variant of the loop body that reuses one dumpState for all arguments
FdumpStartStale ==
  /\ pc = "idle" /\ ~crashed /\ argi <= Len(args)
  /\ args[argi] # NilArg
  /\ pc' = "dumping"
  /\ stack' = <<DumpFrame(args[argi], FALSE, TRUE)>>
  /\ UNCHANGED <<inputs, foreign, argi, out, marks, crashed, depth, pointers, ignoreNextType,
                 ignoreNextPad>>

\* d := dumpState{w: w}; d.pointers = make(...); d.dump(reflect.ValueOf(arg))
FdumpStart ==
  /\ pc = "idle" /\ ~crashed /\ argi <= Len(args)
  /\ args[argi] # NilArg
  /\ pc' = "dumping"
  /\ depth' = 0
  /\ pointers' = NoPointers
  /\ ignoreNextType' = FALSE
  /\ ignoreNextPad' = FALSE
  /\ stack' = <<DumpFrame(args[argi], FALSE, TRUE)>>
  /\ UNCHANGED <<inputs, foreign, argi, out, marks, crashed>>

\* d.dump has returned: d.w.Write(newlineBytes)
FdumpEnd ==
  /\ pc = "dumping" /\ stack = <<>>
  /\ out' = out \o <<"\n">>
  /\ marks' = Append(marks, Len(out'))
  /\ argi' = argi + 1
  /\ pc' = "idle"
  /\ UNCHANGED <<inputs, foreign, depth, pointers, ignoreNextType, ignoreNextPad, stack, crashed>>

(***************************************************************************)
(* dumpState.dumpPtr (dump.go:48-122)                                       *)
(***************************************************************************)
\* a variant of the pruning that keeps the entries of the current depth
PrunePointersBelow(ptrs, d) ==
  [a \in {k \in DOMAIN ptrs : ~(ptrs[k] > d)} |-> ptrs[a]]

\* lines 51-55: entries at or below the current depth are deleted
PrunePointers(ptrs, d) ==
  [a \in {k \in DOMAIN ptrs : ~(ptrs[k] >= d)} |-> ptrs[a]]

\* a variant of the test of line 75 that compares with the depth above
CycleFoundAbove(ptrs, addr, d) == addr \in DOMAIN ptrs /\ ptrs[addr] < d - 1

\* line 75: pd, ok := d.pointers[addr]; ok && pd < d.depth
CycleFound(ptrs, addr, d) == addr \in DOMAIN ptrs /\ ptrs[addr] < d

\* d.dump(v) with v.Kind() == reflect.Ptr: d.pad(), then dumpPtr up to the loop
PtrEnter ==
  /\ pc = "dumping" /\ stack # <<>>
  /\ Top.op = "dump" /\ Top.v.kind = "Ptr"
  /\ out' = out \o PadToks(ignoreNextPad, depth)
  /\ ignoreNextPad' = FALSE
  /\ pointers' = PrunePointers(pointers, depth)
  /\ stack' = Pop \o <<[op |-> "ptr", v0 |-> Top.v, ve |-> Top.v,
                        canAddr |-> Top.canAddr, canIface |-> Top.canIface,
                        indirects |-> 0, chain |-> <<>>,
                        nilFound |-> FALSE, cycleFound |-> FALSE]>>
  /\ UNCHANGED <<inputs, foreign, argi, pc, marks, depth, ignoreNextType, crashed>>

\* one pass of the loop `for ve.Kind() == reflect.Ptr` (lines 67-90)
PtrLoopStep(f, ptrs, d) ==
  LET \* indirects++; past MaxChain only the parity of the count is kept
      ind == IF f.indirects <= MaxChain THEN f.indirects + 1 ELSE MaxChain
      addr == AddrOf(f.ve.target)
      ch == IF Len(f.chain) < MaxChain THEN Append(f.chain, addr) ELSE f.chain
      el == heap[f.ve.target]
  IN IF f.ve.target = 0
       THEN [frame |-> [f EXCEPT !.indirects = ind, !.nilFound = TRUE], ptrs |-> ptrs]
     ELSE IF CycleFound(ptrs, addr, d)
       THEN [frame |-> [f EXCEPT !.indirects = ind - 1, !.chain = ch, !.cycleFound = TRUE],
             ptrs |-> ptrs]
     ELSE IF el.kind = "Interface"
       THEN IF el.isNil
              THEN [frame |-> [f EXCEPT !.indirects = ind, !.chain = ch, !.ve = el,
                                        !.canAddr = TRUE, !.nilFound = TRUE],
                    ptrs |-> Put(ptrs, addr, d)]
              ELSE [frame |-> [f EXCEPT !.indirects = ind, !.chain = ch, !.ve = el.boxed,
                                        !.canAddr = FALSE],
                    ptrs |-> Put(ptrs, addr, d)]
     ELSE [frame |-> [f EXCEPT !.indirects = ind, !.chain = ch, !.ve = el,
                               !.canAddr = TRUE],
           ptrs |-> Put(ptrs, addr, d)]

PtrLoop ==
  /\ pc = "dumping" /\ stack # <<>>
  /\ Top.op = "ptr" /\ Top.ve.kind = "Ptr" /\ ~Top.nilFound /\ ~Top.cycleFound
  /\ LET r == PtrLoopStep(Top, pointers, depth)
     IN /\ stack' = Pop \o <<r.frame>>
        /\ pointers' = r.ptrs
  /\ UNCHANGED <<inputs, foreign, argi, pc, out, marks, depth, ignoreNextType, ignoreNextPad, crashed>>

\* the addresses of the chain joined by "->" (lines 100-105)
RECURSIVE ChainTokens(_, _)
ChainTokens(chain, i) ==
  IF i > Len(chain) THEN <<>>
  ELSE (IF i > 1 THEN <<"->">> ELSE <<>>) \o printHexPtr(U64(chain[i])) \o ChainTokens(chain, i + 1)

\* lines 92-109: the type group, the pointer group and the opening paren
PtrHeader(f) ==
  <<"(">> \o Repeat("*", f.indirects) \o TypeTokens(f.ve.type) \o <<")">>
    \o <<"(">> \o ChainTokens(f.chain, 1) \o <<")">>
    \o <<"(">>

\* the loop has ended: lines 92-120
PtrEmit ==
  /\ pc = "dumping" /\ stack # <<>>
  /\ Top.op = "ptr" /\ (Top.ve.kind # "Ptr" \/ Top.nilFound \/ Top.cycleFound)
  /\ LET f == Top
         outcome == IF f.nilFound THEN "nil" ELSE IF f.cycleFound THEN "cycle" ELSE "value"
         hdr == PtrHeader(f)
         close == [op |-> "ptrclose", v0 |-> f.v0, ve |-> f.ve, chain |-> f.chain,
                   indirects |-> f.indirects, outcome |-> outcome, hdr |-> hdr,
                   depth |-> depth]
     IN CASE outcome = "nil" ->
               /\ out' = out \o hdr \o <<"<nil>">>
               /\ stack' = Pop \o <<close>>
               /\ UNCHANGED ignoreNextType
          [] outcome = "cycle" ->
               /\ out' = out \o hdr \o <<"<already shown>">>
               /\ stack' = Pop \o <<close>>
               /\ UNCHANGED ignoreNextType
          [] OTHER ->
               /\ out' = out \o hdr
               /\ ignoreNextType' = TRUE
               /\ stack' = Pop \o <<close, DumpFrame(f.ve, f.canAddr, f.canIface)>>
  /\ UNCHANGED <<inputs, foreign, argi, pc, marks, depth, pointers, ignoreNextPad, crashed>>

\* line 121: d.w.Write(closeParenBytes)
PtrClose ==
  /\ pc = "dumping" /\ stack # <<>>
  /\ Top.op = "ptrclose"
  /\ out' = out \o <<")">>
  /\ stack' = Pop
  /\ UNCHANGED <<inputs, foreign, argi, pc, marks, depth, pointers, ignoreNextType, ignoreNextPad,
                 crashed>>

(***************************************************************************)
(* dumpState.dump (dump.go:128-281)                                         *)
(***************************************************************************)
\* strconv.FormatInt(val, 10), one token per byte
RECURSIVE Dec(_)
Dec(n) == IF n < 10 THEN <<HexDigit(n)>> ELSE Dec(n \div 10) \o <<HexDigit(n % 10)>>
printInt(val) == IF val < 0 THEN <<"-">> \o Dec(0 - val) ELSE Dec(val)

\* a variant of the depth test that lets one more level through
MaxDepthReachedLate(cs, d) == cs.MaxDepth # 0 /\ d > cs.MaxDepth + 1

\* (Config.MaxDepth != 0) && (d.depth > Config.MaxDepth)
MaxDepthReached(cs, d) == cs.MaxDepth # 0 /\ d > cs.MaxDepth

\* v.Len() / v.NumField()
NumEntries(v) ==
  CASE v.kind = "Struct" -> Len(v.fields)
    [] v.kind = "Slice" -> Len(v.elems)
    [] v.kind = "Map" -> Len(v.pairs)
    [] OTHER -> 0

\* v.MapKeys(): the keys in an order the runtime chooses, as the orders in
\* which the pairs can be visited
MapKeys(v) ==
  LET n == NumEntries(v)
  IN {p \in [1 .. n -> 1 .. n] : \A i, j \in 1 .. n : i # j => p[i] # p[j]}

\* the orders in which the entries of a compound are visited: declaration
\* order for fields and elements, MapKeys for a map
VisitOrders(v) ==
  IF v.kind = "Map" THEN MapKeys(v) ELSE {[i \in 1 .. NumEntries(v) |-> i]}

\* the frame of d.dump(unpackValue(x)) for a field, element, key or value x
ChildFrame(x, canAddr, canIface) ==
  IF x.kind = "Interface" /\ ~x.isNil
    THEN DumpFrame(unpackValue(x), FALSE, canIface)
    ELSE DumpFrame(unpackValue(x), canAddr, canIface)

\* the switch cases that write a value without descending
LeafTokens(v) ==
  CASE v.kind = "Invalid" -> <<"<invalid>">>
    [] v.kind = "Int" -> printInt(v.val)
    [] v.kind = "String" -> Quote(v.chars)
    [] OTHER -> <<>>

\* a variant of the guard's condition that does not read DisableMethods
GuardAppliesAlways(cs, v) == v.kind \notin {"Invalid", "Interface"}

\* a variant of the guard's condition that lets only compounds through
GuardAppliesCompounds(cs, v) ==
  ~cs.DisableMethods /\ v.kind \in {"Struct", "Slice", "Map"}

\* lines 149-150: !Config.DisableMethods, kind != Invalid, kind != Interface
GuardApplies(cs, v) == ~cs.DisableMethods /\ v.kind \notin {"Invalid", "Interface"}

\* d.dump(v) for a value that is not a pointer, up to its return or to the
\* start of the loop over its entries; order is the visiting order chosen
DumpEffect(f, order) ==
  LET v == f.v
      typed == ~ignoreNextType
      label == IF typed
                 THEN PadToks(ignoreNextPad, depth) \o <<"(">> \o TypeTokens(v.type)
                        \o <<")", " ">>
                 ELSE <<>>
      inp1 == IF typed THEN FALSE ELSE ignoreNextPad
      hm == IF GuardApplies(Config, v)
              THEN handleMethods(Config, v, f.canAddr, f.canIface)
              ELSE [toks |-> <<>>, handled |-> FALSE, invoked |-> "none", escaped |-> FALSE]
      pre == out \o label \o hm.toks
  IN IF hm.escaped
       THEN [out |-> pre, depth |-> depth, inp |-> inp1, stack |-> <<>>,
             pc |-> "crashed", crashed |-> TRUE, invoked |-> hm.invoked]
     ELSE IF hm.handled
       THEN [out |-> pre, depth |-> depth, inp |-> inp1, stack |-> Pop,
             pc |-> pc, crashed |-> FALSE, invoked |-> hm.invoked]
     ELSE IF v.kind \in {"Struct", "Slice", "Map"}
       THEN IF MaxDepthReached(Config, depth + 1)
              THEN [out |-> pre \o <<"{", "\n">> \o PadToks(inp1, depth + 1)
                              \o <<"<max depth reached>", "\n">>
                              \o PadToks(FALSE, depth) \o <<"}">>,
                    depth |-> depth, inp |-> FALSE, stack |-> Pop,
                    pc |-> pc, crashed |-> FALSE, invoked |-> hm.invoked]
              ELSE [out |-> pre \o <<"{", "\n">>,
                    depth |-> depth + 1, inp |-> inp1,
                    stack |-> Pop \o <<[op |-> "iter", v |-> v, i |-> 1, order |-> order,
                                        stage |-> "elem", canAddr |-> f.canAddr,
                                        canIface |-> f.canIface, depth |-> depth + 1]>>,
                    pc |-> pc, crashed |-> FALSE, invoked |-> hm.invoked]
     ELSE [out |-> pre \o LeafTokens(v), depth |-> depth, inp |-> inp1, stack |-> Pop,
           pc |-> pc, crashed |-> FALSE, invoked |-> hm.invoked]

Dump ==
  /\ pc = "dumping" /\ stack # <<>>
  /\ Top.op = "dump" /\ Top.v.kind # "Ptr"
  /\ \E order \in VisitOrders(Top.v) :
       LET e == DumpEffect(Top, order)
       IN /\ out' = e.out
          /\ depth' = e.depth
          /\ ignoreNextPad' = e.inp
          /\ stack' = e.stack
          /\ pc' = e.pc
          /\ crashed' = e.crashed
  /\ ignoreNextType' = FALSE
  /\ UNCHANGED <<inputs, foreign, argi, marks, pointers>>

\* the separator written after entry i - 1 of n (lines 192-196)
Separator(i, n) ==
  IF i = 1 THEN <<>> ELSE IF i - 1 < n THEN <<",", "\n">> ELSE <<"\n">>

\* the next pass of the loop over a compound's entries: the separator of the
\* entry before, then the entry up to its first call of d.dump
IterElem ==
  /\ pc = "dumping" /\ stack # <<>>
  /\ Top.op = "iter" /\ Top.stage = "elem" /\ Top.i <= NumEntries(Top.v)
  /\ LET f == Top
         n == NumEntries(f.v)
         sep == Separator(f.i, n)
     IN CASE f.v.kind = "Struct" ->
               LET fld == f.v.fields[f.order[f.i]]
               IN /\ out' = out \o sep \o PadToks(ignoreNextPad, depth) \o <<fld.name, ": ">>
                  /\ ignoreNextPad' = TRUE
                  /\ stack' = Pop \o <<[f EXCEPT !.i = f.i + 1],
                                       ChildFrame(fld.val, f.canAddr,
                                                  f.canIface /\ fld.exported)>>
          [] f.v.kind = "Slice" ->
               /\ out' = out \o sep
               /\ UNCHANGED ignoreNextPad
               /\ stack' = Pop \o <<[f EXCEPT !.i = f.i + 1],
                                    ChildFrame(f.v.elems[f.order[f.i]], TRUE, f.canIface)>>
          [] OTHER ->
               /\ out' = out \o sep
               /\ UNCHANGED ignoreNextPad
               /\ stack' = Pop \o <<[f EXCEPT !.stage = "mapval"],
                                    ChildFrame(f.v.pairs[f.order[f.i]].key, FALSE,
                                               f.canIface)>>
  /\ UNCHANGED <<inputs, foreign, argi, pc, marks, depth, pointers, ignoreNextType, crashed>>

\* the key of a map entry has been dumped: ": " and the value (lines 224-226)
MapValue ==
  /\ pc = "dumping" /\ stack # <<>>
  /\ Top.op = "iter" /\ Top.stage = "mapval"
  /\ LET f == Top
     IN /\ out' = out \o <<": ">>
        /\ ignoreNextPad' = TRUE
        /\ stack' = Pop \o <<[f EXCEPT !.stage = "elem", !.i = f.i + 1],
                             ChildFrame(f.v.pairs[f.order[f.i]].val, FALSE, f.canIface)>>
  /\ UNCHANGED <<inputs, foreign, argi, pc, marks, depth, pointers, ignoreNextType, crashed>>

\* a variant of the end of the loop without d.depth--
IterCloseKeepDepth ==
  /\ pc = "dumping" /\ stack # <<>>
  /\ Top.op = "iter" /\ Top.stage = "elem" /\ Top.i > NumEntries(Top.v)
  /\ out' = out \o Separator(Top.i, NumEntries(Top.v))
              \o PadToks(ignoreNextPad, depth - 1) \o <<"}">>
  /\ ignoreNextPad' = FALSE
  /\ stack' = Pop
  /\ UNCHANGED <<inputs, foreign, argi, pc, marks, depth, pointers, ignoreNextType, crashed>>

\* the loop has ended: d.depth--; d.pad(); d.w.Write(closeBraceBytes)
IterClose ==
  /\ pc = "dumping" /\ stack # <<>>
  /\ Top.op = "iter" /\ Top.stage = "elem" /\ Top.i > NumEntries(Top.v)
  /\ out' = out \o Separator(Top.i, NumEntries(Top.v))
              \o PadToks(ignoreNextPad, depth - 1) \o <<"}">>
  /\ depth' = depth - 1
  /\ ignoreNextPad' = FALSE
  /\ stack' = Pop
  /\ UNCHANGED <<inputs, foreign, argi, pc, marks, pointers, ignoreNextType, crashed>>

Next ==
  \/ FdumpNil
  \/ FdumpStart
  \/ FdumpEnd
  \/ PtrEnter
  \/ PtrLoop
  \/ PtrEmit
  \/ PtrClose
  \/ Dump
  \/ IterElem
  \/ MapValue
  \/ IterClose

Spec == Init /\ [][Next]_vars

\* Fdump runs on one goroutine that is not preempted for ever: a step that
\* can be taken is taken
FairSpec == Spec /\ WF_vars(Next)

(***************************************************************************)
(* SpewState (spew.go:125-138, 247-251) and the package variable Config.    *)
(***************************************************************************)
\* a variant of Config that makes a new copy of the defaults on every call
ConfigMethodFresh(c, cfgs, s) ==
  [cs |-> [c EXCEPT ![s] = Len(cfgs) + 1], configs |-> Append(cfgs, defaultConfig),
   ret |-> Len(cfgs) + 1]

\* func (s *SpewState) Config(): if s.cs == nil { cs := defaultConfig;
\* s.cs = &cs }; return s.cs
ConfigMethod(c, cfgs, s) ==
  IF c[s] = 0
    THEN [cs |-> [c EXCEPT ![s] = Len(cfgs) + 1], configs |-> Append(cfgs, defaultConfig),
          ret |-> Len(cfgs) + 1]
    ELSE [cs |-> c, configs |-> cfgs, ret |-> c[s]]

\* no call of Fdump is running
NoCall == pc = "idle" /\ argi > Len(args)

\* the values a caller gives the fields Indent and MaxDepth
FieldChoices == {[Indent |-> i, MaxDepth |-> m] : i \in {" ", "\t"}, m \in {0, 1}}

\* the argument lists of the dumps made through a SpewState
StateArgs == {<<NilArg, OuterV(1, 1)>>, <<MapBA>>}

\* a caller calls s.Config()
CallConfig(s) ==
  /\ NoCall /\ Cardinality(rets[s]) <= 1
  /\ LET r == ConfigMethod(scs, configs, s)
     IN /\ scs' = r.cs
        /\ configs' = r.configs
        /\ rets' = [rets EXCEPT ![s] = rets[s] \cup {r.ret}]
  /\ UNCHANGED <<inputs, argi, pc, out, marks, depth, pointers, ignoreNextType,
                 ignoreNextPad, stack, crashed, via, concv, sortv, fmtv, hexv, racev>>

\* a caller sets fields through a pointer that s.Config() returned
SetField(s) ==
  /\ NoCall
  /\ \E p \in rets[s], f \in FieldChoices :
       /\ configs[p] # [configs[p] EXCEPT !.Indent = f.Indent, !.MaxDepth = f.MaxDepth]
       /\ configs' = [configs EXCEPT ![p].Indent = f.Indent, ![p].MaxDepth = f.MaxDepth]
  /\ UNCHANGED <<inputs, argi, pc, out, marks, depth, pointers, ignoreNextType,
                 ignoreNextPad, stack, crashed, scs, rets, via, concv, sortv, fmtv, hexv, racev>>

\* a caller sets fields of the package variable Config
SetGlobal ==
  /\ NoCall
  /\ \E f \in FieldChoices :
       /\ Config # [Config EXCEPT !.Indent = f.Indent, !.MaxDepth = f.MaxDepth]
       /\ Config' = [Config EXCEPT !.Indent = f.Indent, !.MaxDepth = f.MaxDepth]
  /\ UNCHANGED <<heap, args, argi, pc, out, marks, depth, pointers, ignoreNextType,
                 ignoreNextPad, stack, crashed, foreign>>

\* func (s *SpewState) Fdump(w, a...): fdump(s.Config(), w, a...); the
\* traversal is the one of dump.go, whose dumpState holds no ConfigState
SpewFdump(s) ==
  /\ NoCall /\ Cardinality(rets[s]) <= 1
  /\ LET r == ConfigMethod(scs, configs, s)
     IN /\ scs' = r.cs
        /\ configs' = r.configs
        /\ rets' = [rets EXCEPT ![s] = rets[s] \cup {r.ret}]
  /\ args' \in StateArgs
  /\ argi' = 1
  /\ out' = <<>>
  /\ marks' = <<>>
  /\ via' = s
  /\ UNCHANGED <<heap, Config, pc, depth, pointers, ignoreNextType, ignoreNextPad,
                 stack, crashed, concv, sortv, fmtv, hexv, racev>>

\* func Fdump(w, a...) of the package
PkgFdump ==
  /\ NoCall
  /\ args' \in StateArgs
  /\ argi' = 1
  /\ out' = <<>>
  /\ marks' = <<>>
  /\ via' = 0
  /\ UNCHANGED <<heap, Config, pc, depth, pointers, ignoreNextType, ignoreNextPad,
                 stack, crashed, scs, configs, rets, concv, sortv, fmtv, hexv, racev>>

\* a program that holds zero-value SpewStates and has dumped nothing yet
StateInit ==
  /\ heap = [c \in Cells |-> DefaultCell(c)]
  /\ args = <<>>
  /\ Config = defaultConfig
  /\ argi = 1
  /\ pc = "idle"
  /\ out = <<>>
  /\ marks = <<>>
  /\ depth = 0
  /\ pointers = NoPointers
  /\ ignoreNextType = FALSE
  /\ ignoreNextPad = FALSE
  /\ stack = <<>>
  /\ crashed = FALSE
  /\ SpewIdle
  /\ ConcIdle
  /\ SortIdle
  /\ FmtIdle
  /\ HexIdle
  /\ RaceIdle

StateNext ==
  \/ Next
  \/ \E s \in SpewStates : CallConfig(s)
  \/ \E s \in SpewStates : SetField(s)
  \/ SetGlobal
  \/ \E s \in SpewStates : SpewFdump(s)
  \/ PkgFdump

StateSpec == StateInit /\ [][StateNext]_vars

(***************************************************************************)
(* Two goroutines in handleMethods as written at part_001:120-177, where    *)
(* the text of the method is appended to the package's openParenBytes.      *)
(***************************************************************************)
Goroutines == {1, 2}

\* cap(openParenBytes) for openParenBytes = []byte("("): the length, or the
\* size class the allocator rounds it up to
ParenCaps == {1, 8}

\* the texts the two values' String methods return, byte by byte
Texts == {<<"a">>, <<"b", "c">>}

\* case fmt.Stringer: iface.String() has returned; without ContinueOnMethod
\* the text is the slice handed to w.Write
CallMethod(i) ==
  /\ gor[i].pc = "call"
  /\ gor' = [gor EXCEPT ![i].pc = IF Config.ContinueOnMethod THEN "append" ELSE "write",
                        ![i].own = gor[i].text]
  /\ UNCHANGED <<walk, spewv, sortv, fmtv, hexv, racev, parenCap, paren, sink, touched>>

\* append(openParenBytes, text...): with room in the backing array the bytes
\* are copied into it and the result shares it, else a new array is made
AppendParen(i) ==
  /\ gor[i].pc = "append"
  /\ IF 1 + Len(gor[i].text) <= parenCap
       THEN gor' = [gor EXCEPT ![i].pc = "copy", ![i].shared = TRUE, ![i].k = 1]
       ELSE gor' = [gor EXCEPT ![i].pc = "write", ![i].own = <<"(">> \o gor[i].text]
  /\ touched' = [touched EXCEPT ![i] = touched[i] \cup {<<0, "r">>}]
  /\ UNCHANGED <<walk, spewv, sortv, fmtv, hexv, racev, parenCap, paren, sink>>

\* the copy that append makes, one byte per step
CopyByte(i) ==
  /\ gor[i].pc = "copy"
  /\ paren' = [paren EXCEPT ![gor[i].k] = gor[i].text[gor[i].k]]
  /\ touched' = [touched EXCEPT ![i] = touched[i] \cup {<<gor[i].k, "w">>}]
  /\ gor' = [gor EXCEPT ![i].k = gor[i].k + 1,
                        ![i].pc = IF gor[i].k = Len(gor[i].text) THEN "write" ELSE "copy"]
  /\ UNCHANGED <<walk, spewv, sortv, fmtv, hexv, racev, parenCap, sink>>

\* w.Write(slice): the bytes of the slice are read and written to the
\* goroutine's own writer
WriteText(i) ==
  /\ gor[i].pc = "write"
  /\ IF gor[i].shared
       THEN /\ sink' = [sink EXCEPT ![i] = sink[i] \o <<"(">>
                                             \o SubSeq(paren, 1, Len(gor[i].text))]
            /\ touched' = [touched EXCEPT
                             ![i] = touched[i] \cup {<<k, "r">> : k \in 0 .. Len(gor[i].text)}]
       ELSE /\ sink' = [sink EXCEPT ![i] = sink[i] \o gor[i].own]
            /\ UNCHANGED touched
  /\ gor' = [gor EXCEPT ![i].pc = IF Config.ContinueOnMethod THEN "close" ELSE "done"]
  /\ UNCHANGED <<walk, spewv, sortv, fmtv, hexv, racev, parenCap, paren>>

\* w.Write(closeParenBytes); w.Write(spaceBytes); return false
WriteClose(i) ==
  /\ gor[i].pc = "close"
  /\ sink' = [sink EXCEPT ![i] = sink[i] \o <<")", " ">>]
  /\ gor' = [gor EXCEPT ![i].pc = "done"]
  /\ UNCHANGED <<walk, spewv, sortv, fmtv, hexv, racev, parenCap, paren, touched>>

\* two traversals, each about to call the String method of its own value
ConcInit ==
  /\ heap = [c \in Cells |-> DefaultCell(c)]
  /\ args = <<>>
  /\ \E b \in BOOLEAN : Config = [defaultConfig EXCEPT !.ContinueOnMethod = b]
  /\ argi = 1
  /\ pc = "idle"
  /\ out = <<>>
  /\ marks = <<>>
  /\ depth = 0
  /\ pointers = NoPointers
  /\ ignoreNextType = FALSE
  /\ ignoreNextPad = FALSE
  /\ stack = <<>>
  /\ crashed = FALSE
  /\ SpewIdle
  /\ SortIdle
  /\ FmtIdle
  /\ HexIdle
  /\ RaceIdle
  /\ parenCap \in ParenCaps
  /\ paren = [k \in 1 .. (parenCap - 1) |-> ""]
  /\ \E t \in [Goroutines -> Texts] :
       gor = [i \in Goroutines |->
                [pc |-> "call", text |-> t[i], own |-> <<>>, shared |-> FALSE, k |-> 0]]
  /\ sink = [i \in Goroutines |-> <<>>]
  /\ touched = [i \in Goroutines |-> {}]

ConcNext ==
  \E i \in Goroutines :
    \/ CallMethod(i)
    \/ AppendParen(i)
    \/ CopyByte(i)
    \/ WriteText(i)
    \/ WriteClose(i)

ConcSpec == ConcInit /\ [][ConcNext]_vars

(***************************************************************************)
(* sortValues (part_001:552-598): sort.Sort over valuesSorter; for a short  *)
(* slice sort.Sort is an insertion sort that calls Less and Swap.           *)
(***************************************************************************)
\* largest number of keys sorted
MaxKeys == 3

BoolV(b) == [kind |-> "Bool", type |-> T("bool"), val |-> b, meth |-> NoMeth]
UintV(n) == [kind |-> "Uint", type |-> T("uint"), val |-> n, meth |-> NoMeth]
UintptrV(n) == [kind |-> "Uintptr", type |-> T("uintptr"), val |-> n, meth |-> NoMeth]

\* the strings used as keys, in lexicographic order: "", "a", "ab", "b"
StringKeys == <<<<>>, <<97>>, <<97, 98>>, <<98>>>>

\* the keys of each primitive kind
KeySets ==
  {{BoolV(b) : b \in BOOLEAN},
   {IntV(T("int"), n, NoMeth) : n \in {-1, 0, 2}},
   {UintV(n) : n \in {0, 1, 3}},
   {UintptrV(n) : n \in {0, 16, 49152}},
   {StrV(StringKeys[k]) : k \in DOMAIN StringKeys}}

\* valuesSorter.Swap
Swap(vs, i, j) == [vs EXCEPT ![i] = vs[j], ![j] = vs[i]]

\* sortValues(values): an empty slice returns at once, else sort.Sort starts
SortValues ==
  /\ spc = "idle"
  /\ IF Len(values) = 0
       THEN spc' = "sorted" /\ UNCHANGED <<si, sj>>
       ELSE spc' = "sorting" /\ si' = 2 /\ sj' = 2
  /\ UNCHANGED <<walk, spewv, concv, fmtv, hexv, racev, input, values>>

\* inner loop: j > a && data.Less(j, j-1): data.Swap(j, j-1); j--
SortSwap ==
  /\ spc = "sorting" /\ si <= Len(values)
  /\ sj > 1 /\ Less(values[sj], values[sj - 1])
  /\ values' = Swap(values, sj, sj - 1)
  /\ sj' = sj - 1
  /\ UNCHANGED <<walk, spewv, concv, fmtv, hexv, racev, input, spc, si>>

\* the inner loop ends: i++
SortAdvance ==
  /\ spc = "sorting" /\ si <= Len(values)
  /\ ~(sj > 1 /\ Less(values[sj], values[sj - 1]))
  /\ si' = si + 1
  /\ sj' = si + 1
  /\ UNCHANGED <<walk, spewv, concv, fmtv, hexv, racev, input, values, spc>>

\* the outer loop ends: sort.Sort returns
SortReturn ==
  /\ spc = "sorting" /\ si > Len(values)
  /\ spc' = "sorted"
  /\ UNCHANGED <<walk, spewv, concv, fmtv, hexv, racev, input, values, si, sj>>

\* a slice of up to MaxKeys keys of one primitive kind
SortInit ==
  /\ heap = [c \in Cells |-> DefaultCell(c)]
  /\ args = <<>>
  /\ Config = defaultConfig
  /\ argi = 1
  /\ pc = "idle"
  /\ out = <<>>
  /\ marks = <<>>
  /\ depth = 0
  /\ pointers = NoPointers
  /\ ignoreNextType = FALSE
  /\ ignoreNextPad = FALSE
  /\ stack = <<>>
  /\ crashed = FALSE
  /\ SpewIdle
  /\ ConcIdle
  /\ FmtIdle
  /\ HexIdle
  /\ RaceIdle
  /\ \E K \in KeySets, n \in 0 .. MaxKeys : input \in [1 .. n -> K]
  /\ values = input
  /\ spc = "idle"
  /\ si = 0
  /\ sj = 0

SortNext ==
  \/ SortValues
  \/ SortSwap
  \/ SortAdvance
  \/ SortReturn

SortSpec == SortInit /\ [][SortNext]_vars

\* a key of the struct type pt struct{ a int }
PtV(n) ==
  StructV(T("main.pt"), <<[name |-> "a", exported |-> FALSE, val |-> IntV(T("int"), n, NoMeth)]>>,
          NoMeth)

\* the keys MapKeys returns for a map[interface {}]T holding keys of several
\* kinds (each a Value of Kind Interface) and for a map[pt]T
OtherKeySets ==
  {{IfaceV(IntV(T("int"), 1, NoMeth)), IfaceV(StrV(<<97>>)), IfaceV(BoolV(TRUE))},
   {PtV(n) : n \in {1, 2, 3}}}

\* the keys of a map of any key type, in the order MapKeys returns them
KeyInit ==
  /\ heap = [c \in Cells |-> DefaultCell(c)]
  /\ args = <<>>
  /\ Config = defaultConfig
  /\ argi = 1
  /\ pc = "idle"
  /\ out = <<>>
  /\ marks = <<>>
  /\ depth = 0
  /\ pointers = NoPointers
  /\ ignoreNextType = FALSE
  /\ ignoreNextPad = FALSE
  /\ stack = <<>>
  /\ crashed = FALSE
  /\ SpewIdle
  /\ ConcIdle
  /\ FmtIdle
  /\ HexIdle
  /\ RaceIdle
  /\ \E K \in KeySets \cup OtherKeySets, n \in 0 .. MaxKeys : input \in [1 .. n -> K]
  /\ values = input
  /\ spc = "idle"
  /\ si = 0
  /\ sj = 0

KeySpec == KeyInit /\ [][SortNext]_vars

(***************************************************************************)
(* The Formatter that NewFormatter returns (spew.go:223-243) and its Format *)
(* method, which the fmt package calls with the verb and flags of the      *)
(* directive.  The method's expected output is given by the tables of       *)
(* spew_test.go:120-134 and part_000:220-234 and by the samples of          *)
(* doc.go:130-136.                                                          *)
(***************************************************************************)
\* strconv.FormatUint(n, 16), one token per byte
RECURSIVE HexDigits(_)
HexDigits(n) ==
  IF n < 16 THEN <<HexDigit(n)>> ELSE HexDigits(n \div 16) \o <<HexDigit(n % 16)>>

\* the values wrapped: the integers of the test tables and a *uint8
FormatValues ==
  {IntV(T("int8"), 127, NoMeth), IntV(T("int16"), 32767, NoMeth),
   IntV(T("int32"), 2147483647, NoMeth),
   [UintV(255) EXCEPT !.type = T("uint8")], [UintV(65535) EXCEPT !.type = T("uint16")],
   [UintV(2147483647) EXCEPT !.type = T("uint32")],
   [kind |-> "Ptr", type |-> PtrTo(T("uint8")), addr |-> AddrOf(1),
    elem |-> [UintV(5) EXCEPT !.type = T("uint8")], meth |-> NoMeth]}

\* the directives: a verb with the flags '+' and '#'; the pointer is printed
\* with %v and %+v only
FormatArgs ==
  {a \in [verb : {"v", "d", "x"}, plus : BOOLEAN, sharp : BOOLEAN, v : FormatValues] :
     a.v.kind = "Ptr" => (a.verb = "v" /\ ~a.sharp)}

\* the inline rendering: the value alone for %v, "<*>" before the value a
\* pointer leads to, its address in parentheses for %+v, and the type in
\* parentheses before the value for %#v
CompactTokens(a) ==
  IF a.v.kind = "Ptr"
    THEN <<"<", "*", ">">>
           \o (IF a.plus THEN <<"(">> \o printHexPtr(U64(a.v.addr)) \o <<")">> ELSE <<>>)
           \o printInt(a.v.elem.val)
    ELSE (IF a.sharp THEN <<"(">> \o TypeTokens(a.v.type) \o <<")">> ELSE <<>>)
           \o printInt(a.v.val)

\* fmt's own formatting of an integer: %d and %x with the sign for '+' and
\* "0x" for %#x; %v as %d, and %#v of an unsigned integer as "0x" and hex
FmtTokens(a) ==
  LET sign == IF a.plus /\ a.verb # "v" THEN <<"+">> ELSE <<>>
  IN CASE a.verb = "d" -> sign \o printInt(a.v.val)
       [] a.verb = "x" -> sign \o (IF a.sharp THEN <<"0", "x">> ELSE <<>>) \o HexDigits(a.v.val)
       [] OTHER -> IF a.sharp /\ a.v.kind = "Uint"
                     THEN <<"0", "x">> \o HexDigits(a.v.val)
                     ELSE printInt(a.v.val)

\* a variant of the test that takes %v and %+v only
FormatHandlesPlain(a) == a.verb = "v" /\ ~a.sharp

\* whether Format renders the value itself: the verb is v, with any flags
FormatHandles(a) == a.verb = "v"

\* Format(fs, verb) for a directive the formatter renders itself
FormatSpew ==
  /\ fmtPc = "call" /\ FormatHandles(fmtArg)
  /\ fmtOut' = CompactTokens(fmtArg)
  /\ fmtBy' = "spew"
  /\ fmtPc' = "done"
  /\ UNCHANGED <<walk, spewv, concv, sortv, hexv, racev, fmtArg>>

\* Format(fs, verb) for any other directive: the original directive is
\* rebuilt and the value is handed to fmt.Fprintf
FormatPassthrough ==
  /\ fmtPc = "call" /\ ~FormatHandles(fmtArg)
  /\ fmtOut' = FmtTokens(fmtArg)
  /\ fmtBy' = "fmt"
  /\ fmtPc' = "done"
  /\ UNCHANGED <<walk, spewv, concv, sortv, hexv, racev, fmtArg>>

\* fmt is about to call Format on a Formatter for one directive
FormatInit ==
  /\ heap = [c \in Cells |-> DefaultCell(c)]
  /\ args = <<>>
  /\ Config = defaultConfig
  /\ argi = 1
  /\ pc = "idle"
  /\ out = <<>>
  /\ marks = <<>>
  /\ depth = 0
  /\ pointers = NoPointers
  /\ ignoreNextType = FALSE
  /\ ignoreNextPad = FALSE
  /\ stack = <<>>
  /\ crashed = FALSE
  /\ SpewIdle
  /\ ConcIdle
  /\ SortIdle
  /\ HexIdle
  /\ RaceIdle
  /\ fmtArg \in FormatArgs
  /\ fmtPc = "call"
  /\ fmtOut = <<>>
  /\ fmtBy = "none"

FormatNext ==
  \/ FormatSpew
  \/ FormatPassthrough

FormatSpec == FormatInit /\ [][FormatNext]_vars

(***************************************************************************)
(* printHexPtr (part_001:518-550) over the whole range of uint64.           *)
(***************************************************************************)
\* the values a 16-bit limb of the address takes
LimbValues == {0, 1, 15, 16, 2748, 65535}

\* the addresses printed: 0, 1, 0xf, 0x10, ..., 2^64 - 1
HexInputs == [1 .. 4 -> LimbValues]

\* printHexPtr(w, p)
PrintHexPtr ==
  /\ hexPc = "call"
  /\ hexOut' = printHexPtr(hexP)
  /\ hexPc' = "done"
  /\ UNCHANGED <<walk, spewv, concv, sortv, fmtv, racev, hexP>>

\* printHexPtr is about to be called with an address
HexInit ==
  /\ heap = [c \in Cells |-> DefaultCell(c)]
  /\ args = <<>>
  /\ Config = defaultConfig
  /\ argi = 1
  /\ pc = "idle"
  /\ out = <<>>
  /\ marks = <<>>
  /\ depth = 0
  /\ pointers = NoPointers
  /\ ignoreNextType = FALSE
  /\ ignoreNextPad = FALSE
  /\ stack = <<>>
  /\ crashed = FALSE
  /\ SpewIdle
  /\ ConcIdle
  /\ SortIdle
  /\ FmtIdle
  /\ RaceIdle
  /\ hexP \in HexInputs
  /\ hexPc = "call"
  /\ hexOut = <<>>

HexSpec == HexInit /\ [][PrintHexPtr]_vars

(***************************************************************************)
(* Two threads in SpewState.Config (spew.go:132-138) of one zero-value      *)
(* SpewState.  The method takes no lock: the test of s.cs, the copy of      *)
(* defaultConfig, the store to s.cs and the load for the return are steps   *)
(* that interleave.                                                         *)
(***************************************************************************)
Threads == {1, 2}

\* largest number of calls of Config one thread makes
MaxConfigCalls == 2

\* the SpewState the threads share
Shared == 1

\* if s.cs == nil
CfgTest(t) ==
  /\ thr[t].pc = "test"
  /\ thr' = [thr EXCEPT ![t].pc = IF scs[Shared] = 0 THEN "alloc" ELSE "return"]
  /\ UNCHANGED <<walk, spewv, concv, sortv, fmtv, hexv>>

\* cs := defaultConfig
CfgAlloc(t) ==
  /\ thr[t].pc = "alloc"
  /\ configs' = Append(configs, defaultConfig)
  /\ thr' = [thr EXCEPT ![t].pc = "store", ![t].local = Len(configs) + 1]
  /\ UNCHANGED <<walk, concv, sortv, fmtv, hexv, scs, rets, via>>

\* s.cs = &cs
CfgStore(t) ==
  /\ thr[t].pc = "store"
  /\ scs' = [scs EXCEPT ![Shared] = thr[t].local]
  /\ thr' = [thr EXCEPT ![t].pc = "return"]
  /\ UNCHANGED <<walk, concv, sortv, fmtv, hexv, configs, rets, via>>

\* return s.cs
CfgReturn(t) ==
  /\ thr[t].pc = "return"
  /\ thr' = [thr EXCEPT ![t].pc = "done", ![t].ret = scs[Shared]]
  /\ rets' = [rets EXCEPT ![Shared] = rets[Shared] \cup {scs[Shared]}]
  /\ UNCHANGED <<walk, concv, sortv, fmtv, hexv, scs, configs, via>>

\* the caller sets a field through the pointer it received
CfgSetField(t) ==
  /\ thr[t].pc = "done"
  /\ configs[thr[t].ret].Indent # "\t"
  /\ configs' = [configs EXCEPT ![thr[t].ret].Indent = "\t"]
  /\ UNCHANGED <<walk, concv, sortv, fmtv, hexv, racev, scs, rets, via>>

\* the caller calls Config() again
CfgAgain(t) ==
  /\ thr[t].pc = "done" /\ thr[t].calls < MaxConfigCalls
  /\ thr' = [thr EXCEPT ![t].pc = "test", ![t].calls = thr[t].calls + 1]
  /\ UNCHANGED <<walk, spewv, concv, sortv, fmtv, hexv>>

\* two threads are about to call Config() on a zero-value SpewState
RaceInit ==
  /\ heap = [c \in Cells |-> DefaultCell(c)]
  /\ args = <<>>
  /\ Config = defaultConfig
  /\ argi = 1
  /\ pc = "idle"
  /\ out = <<>>
  /\ marks = <<>>
  /\ depth = 0
  /\ pointers = NoPointers
  /\ ignoreNextType = FALSE
  /\ ignoreNextPad = FALSE
  /\ stack = <<>>
  /\ crashed = FALSE
  /\ SpewIdle
  /\ ConcIdle
  /\ SortIdle
  /\ FmtIdle
  /\ HexIdle
  /\ thr = [t \in Threads |-> [pc |-> "test", local |-> 0, ret |-> 0, calls |-> 1]]

RaceNext ==
  \E t \in Threads :
    \/ CfgTest(t)
    \/ CfgAlloc(t)
    \/ CfgStore(t)
    \/ CfgReturn(t)
    \/ CfgSetField(t)
    \/ CfgAgain(t)

RaceSpec == RaceInit /\ [][RaceNext]_vars

(***************************************************************************)
(* Properties.                                                              *)
(***************************************************************************)
\* the tokens written for argument i, once it has been rendered
Segment(i) == SubSeq(out, IF i = 1 THEN 1 ELSE marks[i - 1] + 1, marks[i])

EndsWith(s, t) == Len(s) >= Len(t) /\ SubSeq(s, Len(s) - Len(t) + 1, Len(s)) = t

\* the addresses held by the pointers beneath which frame k of the stack runs
ExpandedBelow(k) ==
  UNION {Range(stack[j].chain) :
           j \in {i \in 1 .. (k - 1) : stack[i].op = "ptrclose" /\ stack[i].outcome = "value"}}

\* the number of compounds whose entries are being rendered, up to frame k
NestLevel(k) == Cardinality({j \in 1 .. k : stack[j].op = "iter"})

\* C1: for every root value Fdump terminates, also when a reference leads,
\* directly or through an interface, to a reference holding an address that
\* the same unwrapping chain has already recorded.
C1_Terminates == <>Done

\* C2: a pointer met inside a compound that is being expanded beneath a
\* pointer holding the same address is not re-entered: its type, its address
\* and "<already shown>" are written; no address is being expanded twice on
\* one path.
C2_NoReentry ==
  /\ \A k \in DOMAIN stack :
       (/\ stack[k].op = "ptrclose"
        /\ stack[k].v0.target # 0
        /\ AddrOf(stack[k].v0.target) \in ExpandedBelow(k))
         => /\ stack[k].outcome = "cycle"
            /\ k = Len(stack)
            /\ EndsWith(out, <<"(">> \o TypeTokens(stack[k].v0.type) \o <<")", "(">>
                               \o printHexPtr(U64(AddrOf(stack[k].v0.target)))
                               \o <<")", "(", "<already shown>">>)
  /\ \A k \in DOMAIN stack :
       (stack[k].op = "ptrclose" /\ stack[k].outcome = "value")
         => /\ Range(stack[k].chain) \cap ExpandedBelow(k) = {}
            /\ \A i, j \in DOMAIN stack[k].chain :
                 i # j => stack[k].chain[i] # stack[k].chain[j]

\* a pointer inside a compound beneath a pointer with the same address has
\* been written as the placeholder
C2_Witness ==
  /\ stack # <<>>
  /\ Top.op = "ptrclose" /\ Top.outcome = "cycle"
  /\ Top.chain[Len(Top.chain)] \in ExpandedBelow(Len(stack))
  /\ NestLevel(Len(stack)) >= 1

\* C3: the placeholder is written only for an address that is being expanded
\* on the current path; an address expanded in a completed sibling branch is
\* expanded again.
C3_SiblingsReexpanded ==
  \A k \in DOMAIN stack :
    (stack[k].op = "ptrclose" /\ stack[k].outcome = "cycle")
      => stack[k].chain[Len(stack[k].chain)] \in ExpandedBelow(k)

\* C4: with MaxDepth = N > 0 the entries of a compound are rendered only at
\* nesting depth <= N, a compound entered deeper writes "{", the placeholder
\* and "}" and none of its entries; with MaxDepth = 0 the placeholder is never
\* written.
C4_EntersTooDeep ==
  /\ pc = "dumping" /\ stack # <<>>
  /\ Top.op = "dump" /\ Top.v.kind \in {"Struct", "Slice", "Map"}
  /\ Config.MaxDepth > 0
  /\ NestLevel(Len(stack)) + 1 > Config.MaxDepth
  /\ ~(/\ ~Config.DisableMethods /\ ~Config.ContinueOnMethod
       /\ Top.v.meth.name # "none" /\ ~Top.v.meth.panics)

C4_DepthBound ==
  /\ [](/\ \A k \in DOMAIN stack :
             stack[k].op = "iter"
               => /\ stack[k].depth = NestLevel(k)
                  /\ Config.MaxDepth > 0 => NestLevel(k) <= Config.MaxDepth
        /\ Config.MaxDepth = 0 => "<max depth reached>" \notin Range(out))
  /\ [][C4_EntersTooDeep
          => /\ EndsWith(out', <<"{", "\n">> \o Repeat(Config.Indent, depth + 1)
                                 \o <<"<max depth reached>", "\n">>
                                 \o Repeat(Config.Indent, depth) \o <<"}">>)
             /\ stack' = Pop
             /\ depth' = depth]_vars

\* a compound at the deepest permitted level has its entries rendered and one
\* entered below it has been cut
C4_Witness ==
  /\ Config.MaxDepth = 2
  /\ "<max depth reached>" \in Range(out)
  /\ stack # <<>> /\ Top.op = "iter" /\ NestLevel(Len(stack)) = 2

\* C5: a panic in an Error or String method does not leave Fdump; the token
\* "(PANIC=<message>)" is written where the method's text would be, and the
\* walker goes on in the state it would be in for the same value without the
\* method, so all that is rendered afterwards is unchanged.
C5_MethodPanics ==
  /\ pc = "dumping" /\ stack # <<>>
  /\ Top.op = "dump" /\ Top.v.kind \notin {"Ptr", "Invalid", "Interface"}
  /\ ~Config.DisableMethods
  /\ Top.v.meth.name # "none" /\ Top.v.meth.panics

C5_PanicContained ==
  /\ [](~crashed)
  /\ [][C5_MethodPanics
          => \E order \in VisitOrders(Top.v) :
               LET q == DumpEffect([Top EXCEPT !.v.meth = NoMeth], order)
                   tok == (IF Config.ContinueOnMethod THEN <<"(">> ELSE <<>>)
                            \o <<"(PANIC=", Top.v.meth.text, ")">>
               IN /\ \E i \in Len(out) .. Len(q.out) :
                       out' = SubSeq(q.out, 1, i) \o tok \o SubSeq(q.out, i + 1, Len(q.out))
                  /\ depth' = q.depth
                  /\ ignoreNextPad' = q.inp
                  /\ ignoreNextType' = FALSE
                  /\ pointers' = pointers
                  /\ pc' = "dumping"
                  /\ Len(stack') = Len(q.stack)
                  /\ \A k \in DOMAIN stack' :
                       IF k = Len(stack') /\ stack'[k].op = "iter"
                         THEN /\ q.stack[k].op = "iter"
                              /\ [stack'[k] EXCEPT !.v = q.stack[k].v] = q.stack[k]
                         ELSE stack'[k] = q.stack[k]]_vars

\* a method has panicked, the token was written, and the field after it and
\* the argument after it have been rendered
C5_Witness ==
  /\ Done /\ ~crashed
  /\ \E i, j \in DOMAIN out :
       /\ i < j /\ j <= marks[1]
       /\ out[i] = "(PANIC=" /\ out[j] = "flagTwo"
  /\ \E i \in DOMAIN out : i > marks[1] /\ out[i] = "flagTwo"

\* C6: the keys of a map are put in the Stable Ordering before any pair is
\* written, so the pairs never appear in another order: "a" comes before "b".
C6_KeysSorted ==
  \A k \in DOMAIN stack :
    (stack[k].op = "iter" /\ stack[k].v.kind = "Map")
      => \A i, j \in DOMAIN stack[k].order :
           i < j => ~Less(stack[k].v.pairs[stack[k].order[j]].key,
                          stack[k].v.pairs[stack[k].order[i]].key)

\* C7: two renderings of the same value under the same configuration write
\* the same bytes.
C7_SameBytesTwice ==
  (Done /\ args[1] = args[2]) => Segment(1) = Segment(2)

\* the value reached from pointer v by following every pointer, with the
\* addresses passed on the way; ok unless a pointer is nil, an interface on
\* the way is empty, or an address comes twice or is in `path`
RECURSIVE Chase(_, _, _)
Chase(v, addrs, path) ==
  IF v.kind # "Ptr" THEN [ok |-> TRUE, addrs |-> addrs, final |-> v]
  ELSE IF v.target = 0 THEN [ok |-> FALSE, addrs |-> addrs, final |-> v]
  ELSE IF AddrOf(v.target) \in Range(addrs) \cup path
    THEN [ok |-> FALSE, addrs |-> addrs, final |-> v]
  ELSE LET el == heap[v.target]
           as == Append(addrs, AddrOf(v.target))
       IN IF el.kind = "Interface"
            THEN IF el.isNil THEN [ok |-> FALSE, addrs |-> as, final |-> el]
                 ELSE Chase(el.boxed, as, path)
            ELSE Chase(el, as, path)

\* C8: a value of type T behind k >= 1 levels of non-nil indirection that
\* does not lead back into the path is written as "(" k asterisks T ")(" the
\* k addresses joined by "->" ")(" followed by the value without a type label.
C8_ChainRendering ==
  \A k \in DOMAIN stack :
    stack[k].op = "ptrclose"
      => LET c == Chase(stack[k].v0, <<>>, ExpandedBelow(k))
         IN c.ok
              => /\ stack[k].outcome = "value"
                 /\ stack[k].ve = c.final
                 /\ stack[k].indirects = Len(c.addrs)
                 /\ stack[k].hdr = <<"(">> \o Repeat("*", Len(c.addrs))
                                     \o TypeTokens(c.final.type) \o <<")", "(">>
                                     \o ChainTokens(c.addrs, 1) \o <<")", "(">>

\* C9: a nil pointer of static type *T is written as "(*T)(<nil>)" and a
\* newline.
C9_NilPointer ==
  \A i \in DOMAIN marks :
    (args[i].kind = "Ptr" /\ args[i].target = 0)
      => Segment(i) = <<"(">> \o TypeTokens(args[i].type)
                        \o <<")", "(", "<nil>", ")", "\n">>

\* C10: a root argument that is a nil interface is written as
\* "(interface {}) <nil>" and a newline, and Fdump goes on to the next
\* argument.
C10_NilInterface ==
  \A i \in DOMAIN marks :
    args[i] = NilArg
      => /\ Segment(i) = <<"(interface {})", " ", "<nil>", "\n">>
         /\ argi > i

\* C11: an interface-typed field, element or map value that holds no value
\* is written as its interface type label followed by "<nil>".
C11_NilInterfaceEntry ==
  [][(/\ pc = "dumping" /\ stack # <<>>
      /\ Top.op = "dump" /\ Top.v.kind = "Interface" /\ Top.v.isNil)
       => EndsWith(out', <<"(">> \o TypeTokens(Top.v.type) \o <<")", " ", "<nil>">>)]_vars

\* the type label dump writes before the guard runs (dump.go:138-144)
TypeLabel ==
  IF ignoreNextType THEN <<>>
  ELSE PadToks(ignoreNextPad, depth) \o <<"(">> \o TypeTokens(Top.v.type) \o <<")", " ">>

\* C12: when an Error or String method is invoked and returns: with
\* ContinueOnMethod false its text after the type label is the whole
\* rendering and nothing is expanded; with ContinueOnMethod true the text is
\* written as "(" text ") " and the structural rendering of the value follows.
C12_MethodReturns ==
  /\ pc = "dumping" /\ stack # <<>>
  /\ Top.op = "dump" /\ Top.v.kind \notin {"Ptr", "Invalid", "Interface"}
  /\ ~Config.DisableMethods
  /\ Top.v.meth.name # "none" /\ Top.v.meth.recv = "value" /\ ~Top.v.meth.panics

C12_MethodResult ==
  [][C12_MethodReturns
       => IF ~Config.ContinueOnMethod
            THEN /\ out' = out \o TypeLabel \o <<Top.v.meth.text>>
                 /\ stack' = Pop
                 /\ depth' = depth
            ELSE \E order \in VisitOrders(Top.v) :
                   LET q == DumpEffect([Top EXCEPT !.v.meth = NoMeth], order)
                       n == Len(out) + Len(TypeLabel)
                   IN /\ out' = SubSeq(q.out, 1, n) \o <<"(", Top.v.meth.text, ")", " ">>
                                   \o SubSeq(q.out, n + 1, Len(q.out))
                      /\ Len(q.out) > n
                      /\ depth' = q.depth
                      /\ Len(stack') = Len(q.stack)
                      /\ \A k \in DOMAIN stack' :
                           IF k = Len(stack') /\ stack'[k].op = "iter"
                             THEN /\ q.stack[k].op = "iter"
                                  /\ [stack'[k] EXCEPT !.v = q.stack[k].v] = q.stack[k]
                             ELSE stack'[k] = q.stack[k]]_vars

\* a struct's String method returned with ContinueOnMethod set: its text was
\* written in parentheses and the struct was expanded after it
C12_Witness ==
  /\ Done /\ Config.ContinueOnMethod
  /\ \E i \in DOMAIN out :
       /\ i + 5 <= Len(out)
       /\ SubSeq(out, i, i + 5) = <<"(", "pair", ")", " ", "{", "\n">>

\* C13: with DisablePointerMethods set, a method declared on the pointer
\* receiver only is not invoked for a value that is not a pointer, addressable
\* or not, and the value is rendered structurally; with DisablePointerMethods
\* clear the method is invoked.
C13_PointerMethodValue ==
  /\ pc = "dumping" /\ stack # <<>>
  /\ Top.op = "dump" /\ Top.v.kind \notin {"Ptr", "Invalid", "Interface"}
  /\ ~Config.DisableMethods
  /\ Top.v.meth.name # "none" /\ Top.v.meth.recv = "pointer"

C13_PointerMethods ==
  [][C13_PointerMethodValue
       => IF Config.DisablePointerMethods
            THEN \E order \in VisitOrders(Top.v) :
                   out' = DumpEffect([Top EXCEPT !.v.meth = NoMeth], order).out
            ELSE Top.v.meth.text \in Range(SubSeq(out', Len(out) + 1, Len(out')))]_vars

\* two call stacks that agree but for the method of the value whose entries
\* the innermost frame runs over
SameFrames(st, qs) ==
  /\ Len(st) = Len(qs)
  /\ \A k \in DOMAIN st :
       IF k = Len(st) /\ st[k].op = "iter"
         THEN qs[k].op = "iter" /\ [st[k] EXCEPT !.v = qs[k].v] = qs[k]
         ELSE st[k] = qs[k]

\* the texts the methods of the dumped values return or panic with
MethodTexts ==
  {StringerOK.text, StringerPanics.text, StringerPair.text, StringerPtr.text,
   ErrorAndStringer.text, ErrorAndStringer.strText, "(PANIC="}

\* C14: with DisableMethods set no Error or String method is invoked at any
\* depth and every value is rendered structurally.
C14_MethodsDisabled ==
  /\ [](Config.DisableMethods => Range(out) \cap MethodTexts = {})
  /\ [][(/\ Config.DisableMethods
          /\ pc = "dumping" /\ stack # <<>>
          /\ Top.op = "dump" /\ Top.v.kind # "Ptr")
           => \E order \in VisitOrders(Top.v) :
                LET q == DumpEffect([Top EXCEPT !.v.meth = NoMeth], order)
                IN out' = q.out /\ SameFrames(stack', q.stack) /\ depth' = q.depth]_vars

\* values with methods at depth 0 and depth 1 have been rendered structurally
C14_Witness ==
  /\ Done /\ Config.DisableMethods
  /\ args[1] = PairV(StringerPanics)
  /\ \E i \in DOMAIN out :
       /\ i + 4 <= Len(out)
       /\ SubSeq(out, i, i + 4) = <<"(", "main.Flag", ")", " ", "1">>

\* a dump of a primitive value (integer or string) that has a method
C15_PrimitiveWithMethod ==
  /\ pc = "dumping" /\ stack # <<>>
  /\ Top.op = "dump" /\ Top.v.kind \in {"Int", "String"}
  /\ Top.v.meth.name # "none"
  /\ ~Config.DisableMethods

C16_FreshPerArgument ==
  /\ [](/\ Len(marks) = argi - 1
        /\ \A i \in DOMAIN marks :
             /\ out[marks[i]] = "\n"
             /\ i > 1 => marks[i - 1] < marks[i]
             /\ args[i] # NilArg => Len(Segment(i)) >= 2 /\ out[marks[i] - 1] # "\n"
        /\ pc = "idle" => Len(out) = (IF marks = <<>> THEN 0 ELSE marks[Len(marks)])
        /\ (Done /\ args[1] = args[2] /\ args[1].kind = "Ptr")
             => Segment(1) = Segment(2))
  /\ [][(pc = "idle" /\ pc' = "dumping")
           => /\ depth' = 0
              /\ pointers' = NoPointers
              /\ ~ignoreNextType' /\ ~ignoreNextPad'
              /\ stack' = <<DumpFrame(args[argi], FALSE, TRUE)>>
              /\ out' = out]_vars

\* the same pointer to a struct was passed twice and expanded both times
C16_Witness ==
  /\ Done /\ args[1] = args[2]
  /\ args[1].kind = "Ptr" /\ args[1].target # 0
  /\ Segment(1) = Segment(2)
  /\ "{" \in Range(Segment(2))
  /\ "<already shown>" \notin Range(Segment(2))

\* C18: the first Config() call on a zero-value SpewState returns a
\* ConfigState equal to the defaults, and every later call, after any field
\* changes and dumps, returns that same ConfigState: no call replaces it or
\* changes what it holds.
C18_ConfigStable ==
  /\ [](\A s \in SpewStates : Cardinality(rets[s]) <= 1 /\ rets[s] \subseteq {scs[s]})
  /\ [][\A s \in SpewStates :
          (rets[s] = {} /\ rets'[s] # {})
            => \A p \in rets'[s] :
                 /\ p \notin DOMAIN configs
                 /\ configs'[p].Indent = " " /\ configs'[p].MaxDepth = 0
                 /\ ~configs'[p].DisableMethods /\ ~configs'[p].DisablePointerMethods]_vars
  /\ [][(scs' # scs \/ rets' # rets \/ args' # args \/ pc' # pc \/ out' # out)
           => \A p \in DOMAIN configs : configs'[p] = configs[p]]_vars

\* a SpewState's ConfigState was changed through the pointer, a dump was
\* made through the SpewState, and Config() has returned the same pointer on
\* every call
C18_Witness ==
  /\ Done /\ via # 0 /\ out # <<>>
  /\ rets[via] = {scs[via]}
  /\ configs[scs[via]].Indent = "\t" /\ configs[scs[via]].MaxDepth = 1

\* the configuration of the entry point whose dump is running
InstanceConfig == IF via = 0 THEN Config ELSE configs[scs[via]]

C17_NoSharedWrites ==
  /\ \A i, j \in DOMAIN gor :
       i # j => \A a \in touched[i], b \in touched[j] :
                  a[1] = b[1] => a[2] = "r" /\ b[2] = "r"
  /\ \A i \in DOMAIN gor :
       gor[i].pc = "done"
         => sink[i] = IF Config.ContinueOnMethod
                        THEN <<"(">> \o gor[i].text \o <<")", " ">>
                        ELSE gor[i].text

\* ascending native order of two keys of one kind: false before true,
\* numeric order, lexicographic order
NativeLeq(x, y) ==
  CASE x.kind = "Bool" -> (x.val => y.val)
    [] x.kind = "String" ->
         (CHOOSE k \in DOMAIN StringKeys : StringKeys[k] = x.chars)
           <= (CHOOSE k \in DOMAIN StringKeys : StringKeys[k] = y.chars)
    [] OTHER -> x.val <= y.val

\* C20: for keys of one primitive kind sortValues leaves a permutation of
\* the input in ascending native order, and Less is a strict total order on
\* them: irreflexive, transitive, and exactly one of Less(x, y), Less(y, x)
\* holds for two distinct keys.
C20_SortValues ==
  /\ \A i, j, k \in DOMAIN input :
       /\ ~Less(input[i], input[i])
       /\ (Less(input[i], input[j]) /\ Less(input[j], input[k])) => Less(input[i], input[k])
       /\ input[i] # input[j] => (Less(input[i], input[j]) # Less(input[j], input[i]))
       /\ Less(input[i], input[j]) = (NativeLeq(input[i], input[j]) /\ input[i] # input[j])
  /\ spc = "sorted"
       => /\ Len(values) = Len(input)
          /\ \A x \in Range(input) \cup Range(values) :
               Cardinality({i \in DOMAIN input : input[i] = x})
                 = Cardinality({i \in DOMAIN values : values[i] = x})
          /\ \A i, j \in DOMAIN values : i < j => NativeLeq(values[i], values[j])

\* three keys given in descending order have been sorted
C20_Witness ==
  /\ spc = "sorted" /\ Len(input) = 3
  /\ Less(input[3], input[2]) /\ Less(input[2], input[1])
  /\ values = <<input[3], input[2], input[1]>>

\* C21: keys of different kinds, or of a compound or unknown kind, are
\* ordered by their text: of two distinct keys one comes before the other, so
\* the sorted sequence has each key before every distinct key that follows it
\* and is the same for every order in which the keys are given.
C21_FallbackTotalOrder ==
  (\E K \in OtherKeySets : Range(input) \subseteq K)
    => /\ \A i, j \in DOMAIN input :
            input[i] # input[j] => (Less(input[i], input[j]) # Less(input[j], input[i]))
       /\ spc = "sorted"
            => \A i, j \in DOMAIN values :
                 (i < j /\ values[i] # values[j]) => Less(values[i], values[j])

DigitValue(tok) == CHOOSE d \in 0 .. 15 : HexDigit(d) = tok

\* the uint64 that a string of at most 16 hexadecimal digits denotes
ParseHex(ds) ==
  LET padded == [k \in 1 .. (16 - Len(ds)) |-> "0"] \o ds
      d(k) == DigitValue(padded[k])
  IN [l \in 1 .. 4 |->
        ((d(4 * l - 3) * 16 + d(4 * l - 2)) * 16 + d(4 * l - 1)) * 16 + d(4 * l)]

\* C23: for every address p in 0 .. 2^64 - 1 printHexPtr writes "<nil>" when
\* p = 0 and otherwise "0x" and the lowercase hexadecimal digits of p, without
\* a leading zero and denoting exactly p; the index into the 18-byte buffer
\* never goes below 0.
C23_HexAddress ==
  hexPc = "done"
    => IF hexP = U64(0)
         THEN hexOut = <<"<nil>">>
         ELSE LET ds == SubSeq(hexOut, 3, Len(hexOut))
                  r == HexLoop(hexP, 17, [k \in 0 .. 17 |-> ""])
              IN /\ Len(hexOut) >= 3 /\ Len(hexOut) <= 18
                 /\ hexOut[1] = "0" /\ hexOut[2] = "x"
                 /\ \A k \in DOMAIN ds : \E d \in 0 .. 15 : ds[k] = HexDigit(d)
                 /\ ds[1] # "0"
                 /\ ParseHex(ds) = hexP
                 /\ r.i - 2 >= 0
                 /\ r.i - 2 = 18 - Len(hexOut)

\* the address 2^64 - 1 has been written with all 18 bytes of the buffer
C23_Witness ==
  /\ hexPc = "done"
  /\ hexP = <<65535, 65535, 65535, 65535>>
  /\ hexOut = <<"0", "x">> \o [k \in 1 .. 16 |-> "f"]

\* the number of copies of Indent that the output holds from position i on
RECURSIVE IndentRun(_)
IndentRun(i) ==
  IF i <= Len(out) /\ out[i] = Config.Indent THEN 1 + IndentRun(i + 1) ELSE 0

\* the number of compounds open after the first i tokens of the output
BraceLevel(i) ==
  Cardinality({j \in 1 .. i : out[j] = "{"}) - Cardinality({j \in 1 .. i : out[j] = "}"})

\* C24: every line written at nesting depth k starts with exactly k copies
\* of Indent; the closing brace of a compound is indented as the line that
\* opened it; entries are separated by "," and a newline and the last entry is
\* followed by a newline only; the value of a map entry or struct field
\* follows ": " on the same line with no indentation before it.
C24_Indentation ==
  /\ depth = (IF pc = "dumping" THEN BraceLevel(Len(out)) ELSE depth)
  /\ \A i \in DOMAIN out :
       (out[i] = "\n" /\ i < Len(out))
         => LET n == IndentRun(i + 1)
                k == BraceLevel(i)
            IN /\ i + 1 + n <= Len(out)
               /\ IF out[i + 1 + n] = "}"
                    THEN n = k - 1 /\ out[i - 1] # ","
                    ELSE n = k /\ (k > 0 => out[i - 1] \in {",", "{"})
  /\ \A i \in DOMAIN out :
       /\ (out[i] = "," /\ i < Len(out)) => out[i + 1] = "\n"
       /\ (out[i] = ": " /\ i < Len(out)) => out[i + 1] = "("

\* a struct inside a struct was rendered: a field line with two copies of
\* Indent, the inner closing brace with one and the outer with none
C24_Witness ==
  /\ Done
  /\ \E i \in DOMAIN out :
       /\ i + 4 <= Len(out)
       /\ SubSeq(out, i, i + 4) = <<"\n", Config.Indent, Config.Indent, "q", ": ">>
  /\ \E i \in DOMAIN out :
       /\ i + 4 <= Len(out)
       /\ SubSeq(out, i, i + 4) = <<"\n", Config.Indent, "}", "\n", "}">>

\* the cell the pointer stored in cell c leads to, directly or out of an
\* interface (0: the cell holds no pointer, or a nil one)
NextCell(c) ==
  LET el == heap[c]
      v == IF el.kind = "Interface" /\ ~el.isNil THEN el.boxed ELSE el
  IN IF v.kind = "Ptr" THEN v.target ELSE 0

\* the cells of the unwrapping chain that starts at cell c
RECURSIVE PathFrom(_, _)
PathFrom(c, n) ==
  IF c = 0 \/ n = 0 THEN {} ELSE {c} \cup PathFrom(NextCell(c), n - 1)

\* the cells whose addresses the map holds with depth d
CellsAtDepth(d) ==
  {c \in Cells : AddrOf(c) \in DOMAIN pointers /\ pointers[AddrOf(c)] = d}

\* C25: on entry to dumpPtr at depth d every entry of the identity map
\* recorded at depth >= d is removed and every entry recorded at depth < d is
\* kept unchanged; at any time the entries of one depth belong to one
\* unwrapping chain, so the map does not grow with the number of sibling
\* references.
C25_MapPruned ==
  /\ [](\A d \in Range(pointers) :
          \E c \in CellsAtDepth(d) : CellsAtDepth(d) \subseteq PathFrom(c, Cardinality(Cells)))
  /\ [][(/\ pc = "dumping" /\ stack # <<>>
          /\ Top.op = "dump" /\ Top.v.kind = "Ptr")
           => /\ DOMAIN pointers' = {a \in DOMAIN pointers : pointers[a] < depth}
              /\ \A a \in DOMAIN pointers' : pointers'[a] = pointers[a]]_vars
  /\ [][\A a \in DOMAIN pointers' \ DOMAIN pointers :
          /\ pointers'[a] = depth
          /\ stack # <<>> /\ Top.op = "ptr"
          /\ DOMAIN pointers' = DOMAIN pointers \cup {a}]_vars

\* the pointer of a later sibling is entered at depth 2 while the map holds
\* the entry the earlier sibling recorded at depth 2 and an entry of depth 1
C25_Witness ==
  /\ pc = "dumping" /\ stack # <<>>
  /\ Top.op = "dump" /\ Top.v.kind = "Ptr" /\ depth = 2
  /\ \E a, b \in DOMAIN pointers : pointers[a] = 2 /\ pointers[b] = 1

\* C26: when the invoked Error or String method panics the guard returns
\* handled = false whatever ContinueOnMethod is, so the structural rendering
\* of the same value is written directly after "(PANIC=<message>)"; for an
\* integer the token is followed by the decimal value.
C26_PanicNotHandled ==
  [][C5_MethodPanics
       => /\ \A b \in BOOLEAN :
               ~handleMethods([Config EXCEPT !.ContinueOnMethod = b], Top.v,
                              Top.canAddr, Top.canIface).handled
          /\ \E order \in VisitOrders(Top.v) :
               LET q == DumpEffect([Top EXCEPT !.v.meth = NoMeth], order)
                   n == Len(out) + Len(TypeLabel)
                   tok == <<"(PANIC=", Top.v.meth.text, ")">>
                   new == SubSeq(out', n + 1, Len(out'))
                   rest == SubSeq(q.out, n + 1, Len(q.out))
               IN /\ SubSeq(out', 1, n) = SubSeq(q.out, 1, n)
                  /\ new \in {tok \o rest, <<"(">> \o tok \o rest}
                  /\ rest # <<>>
                  /\ Top.v.kind = "Int" => rest = printInt(Top.v.val)
                  /\ SameFrames(stack', q.stack)
                  /\ depth' = q.depth]_vars

\* with ContinueOnMethod set, the String method of an integer panicked and
\* the decimal value was written after the token
C26_Witness ==
  /\ Done /\ Config.ContinueOnMethod
  /\ \E i \in DOMAIN out :
       /\ i + 3 <= Len(out)
       /\ SubSeq(out, i, i + 3) = <<"(PANIC=", "boom", ")", "5">>
  /\ \E i \in DOMAIN out :
       /\ i + 3 <= Len(out)
       /\ SubSeq(out, i, i + 3) = <<"(PANIC=", "boom", ")", "{">>

\* whether the delimiters of s from position k on close, in order, the
\* delimiters that `open` expects and those opened on the way; "(PANIC=" opens
\* a parenthesis
RECURSIVE Nested(_, _, _)
Nested(s, k, open) ==
  IF k > Len(s) THEN open = <<>>
  ELSE IF s[k] \in {"(", "(PANIC="} THEN Nested(s, k + 1, Append(open, ")"))
  ELSE IF s[k] = "{" THEN Nested(s, k + 1, Append(open, "}"))
  ELSE IF s[k] \in {")", "}"}
    THEN /\ open # <<>>
         /\ open[Len(open)] = s[k]
         /\ Nested(s, k + 1, SubSeq(open, 1, Len(open) - 1))
  ELSE Nested(s, k + 1, open)

\* C27: in the output of each root value the braces and parentheses that
\* the walker writes are balanced and properly nested, for every value and
\* configuration: also for a nil or cyclic pointer and for a method that
\* panics while ContinueOnMethod is set.
C27_Balanced ==
  \A i \in DOMAIN marks : Nested(Segment(i), 1, <<>>)

\* C28: when dump returns for a value the depth is what it was on entry and
\* ignoreNextType and ignoreNextPad are clear; a suppression is set only for
\* the value about to be dumped (ignoreNextPad after ": ", ignoreNextType
\* beneath a pointer) and is clear when the next sibling is reached; after a
\* root value the depth is 0.
C28_StateRestored ==
  /\ [](/\ (pc = "dumping" /\ stack = <<>>)
             => depth = 0 /\ ~ignoreNextType /\ ~ignoreNextPad
        /\ (pc = "dumping" /\ stack # <<>>)
             => /\ Top.op \in {"iter", "ptrclose"}
                     => /\ ~ignoreNextType
                        /\ ignoreNextPad => (Top.op = "iter" /\ out[Len(out)] = ": ")
                /\ (Top.op = "iter" /\ Top.stage = "elem" /\ Top.v.kind # "Struct")
                     => ~ignoreNextPad
                /\ (Top.op = "dump" /\ ignoreNextPad) => out[Len(out)] = ": "
                /\ (Top.op = "dump" /\ ignoreNextType)
                     => /\ Len(stack) >= 2
                        /\ stack[Len(stack) - 1].op = "ptrclose"
                        /\ stack[Len(stack) - 1].outcome = "value")
  /\ [][(pc = "dumping" /\ pc' = "dumping" /\ Len(stack') = Len(stack) - 1)
           => /\ ~ignoreNextType' /\ ~ignoreNextPad'
              /\ depth' = (IF Top.op = "iter" THEN Top.depth - 1
                            ELSE IF Top.op = "ptrclose" THEN Top.depth
                            ELSE depth)]_vars

\* a struct field's value, rendered without indentation after ": ", has
\* returned at depth 2 and the closing brace of the struct is next
C28_Witness ==
  /\ pc = "dumping" /\ stack # <<>>
  /\ Top.op = "iter" /\ Top.v.kind = "Struct" /\ Top.i > NumEntries(Top.v)
  /\ depth = 2 /\ Top.depth = 2
  /\ ~ignoreNextType /\ ~ignoreNextPad
  /\ ": " \in Range(out)

\* C29: two threads that call Config() at once on one zero-value SpewState
\* obtain the same ConfigState, and a field set through a pointer either of
\* them received is seen through the pointer of every later Config() call.
C29_OneConfigState ==
  /\ \A t, u \in DOMAIN thr :
       (thr[t].ret # 0 /\ thr[u].ret # 0) => thr[t].ret = thr[u].ret
  /\ \A t \in DOMAIN thr :
       thr[t].ret # 0 => thr[t].ret = scs[Shared]
  /\ \A t, u \in DOMAIN thr :
       (thr[t].ret # 0 /\ thr[u].ret # 0)
         => configs[thr[t].ret].Indent = configs[thr[u].ret].Indent

\* a value whose type has an Error method and a String method reaches the
\* method guard with methods enabled
C30_BothMethods ==
  /\ pc = "dumping" /\ stack # <<>>
  /\ Top.op = "dump" /\ Top.v.kind \notin {"Ptr", "Invalid", "Interface"}
  /\ ~Config.DisableMethods
  /\ Top.v.meth.name = "both" /\ Top.v.meth.recv = "value"

\* C30: when the interface obtained for a value provides both an Error method
\* and a String method, only Error is invoked and its text is used; String is
\* not invoked for that value.
C30_ErrorPreferred ==
  [][C30_BothMethods
       => LET new == SubSeq(out', Len(out) + 1, Len(out'))
          IN /\ \A order \in VisitOrders(Top.v) :
                  DumpEffect(Top, order).invoked = "Error"
             /\ Top.v.meth.text \in Range(new)
             /\ Top.v.meth.strText \notin Range(new)
             /\ IF Config.ContinueOnMethod
                  THEN new = TypeLabel \o <<"(", Top.v.meth.text, ")", " ">>
                               \o LeafTokens(Top.v)
                  ELSE new = TypeLabel \o <<Top.v.meth.text>>]_vars

\* the dump of a value with both methods has finished and the text of its
\* Error method is in the output
C30_Witness ==
  /\ Done /\ ~Config.DisableMethods
  /\ args[Len(args)] = ErrStrV
  /\ ErrorAndStringer.text \in Range(out)
  /\ ErrorAndStringer.strText \notin Range(out)

====
